---- MODULE Spec2Model ----
(***************************************************************************)
(* Model of the evaluation CLI of rippletideco/starter: the evaluation     *)
(* orchestrator (cli/src/api/evaluation.ts, identical in                   *)
(* cli/src/api/client.ts), the agent call (cli/src/api/llm.ts), the        *)
(* response extractor (cli/src/api/response.ts), the legacy runEvaluation  *)
(* (cli/src/api/knowledge.ts) and the running-evaluation effect of the     *)
(* interactive App (cli/src/App.tsx).                                      *)
(*                                                                         *)
(* Strings are sequences of tokens, so that concatenation (\o), emptiness  *)
(* and startsWith are computed, not assumed. JSON values are tagged        *)
(* records; an object is a sequence of <<key, value>> pairs in insertion   *)
(* order.                                                                  *)
(***************************************************************************)
EXTENDS Integers, Sequences, FiniteSets, TLC

VARIABLES
    \* ---- one invocation of runAllPromptEvaluations, followed by the
    \* ---- summary of runEvaluation (knowledge.ts)
    prompts,       \* the created prompts handed to runAllPromptEvaluations
    customConfig,  \* the customConfig argument (Null: undefined)
    pc,            \* "loop" | "agent" | "judge" | "sleep" | "returned" | "summarised"
    i,             \* the loop variable of runAllPromptEvaluations
    results,       \* const results: PromptEvaluationResult[]
    llmCall,       \* the outcome of the agent call awaited by runPromptEvaluation
    lastCalls,     \* the requests made for the prompt evaluated last
    cbThrew,       \* history: a progress callback has thrown
    summary,       \* the value runEvaluation returns (Null until then)
    \* ---- calls of checkHallucination on their own
    hcCalls,       \* the number of calls made
    hcResponse,    \* the llmResponse argument of the last call
    hcJudge,       \* the judge's reaction to the last call's request (if one was sent)
    hcOutcome,     \* what the last call returned or threw
    \* ---- calls of addTestPrompts on their own
    atpPrompts,    \* the prompts argument (Null: absent)
    atpRequest,    \* the request posted to the backend: [sent, prompts]
    \* ---- the connection probe of the App, and the agent call that follows it
    probeAgent,    \* the endpoint under test
    probeConfig,   \* const [customConfig, setCustomConfig] of the App
    probePc,       \* "probing" | "done" | "evaluated"
    probeIndex,    \* the 1-based position of testAgentConnection's loop
    probeAttempts, \* the requests the probe has sent: [shape, reaction]
    probeOutcome,  \* what the probe returned (Null until then)
    evalCall,      \* the agent call of the evaluation: [sent, shapes, out]
    \* ---- the backend clients of a run and the requests they send
    keySource,     \* the knowledge source of the run: "pdf" | "files"
    keyPc,         \* the position of the run in its sequence of backend calls
    evaluationTs,  \* module state of evaluation.ts: [API_KEY, baseURL] (0: null)
    knowledgeTs,   \* module state of knowledge.ts: [API_KEY, baseURL] (0: null)
    urlChanges,    \* the number of setBackendUrl calls made
    keyRequests,   \* the backend requests sent: [call, baseURL, key] (key 0: no header)
    \* ---- the end of a run of the App and the exit of the process
    exitApp,       \* [nonInteractive, mounted, step, currentAgentId, evaluationResult]
    exitBodies,    \* the async bodies of the running-evaluation effect: where each is
    exitTimers,    \* the pending timeouts of the complete effect: the result each captured
    exitCode,      \* the exit status of the process (-1: it is running)
    \* ---- calls of the pure functions of endpoint.ts and response.ts
    fnCall,        \* the function called and its arguments: [fn, ...]
    fnReturns,     \* what the calls made so far returned or threw, in order
    \* ---- callLLMEndpoint without custom configuration, one variant at a time
    searchPc,        \* "idle" | "loop" | "after" | "done"
    searchResponse,  \* let response: the last response received (NoResponse: null)
    searchLastError, \* let lastError (NoError: null)
    searchSent,      \* history: the shapes of the requests sent, in order
    searchLast,      \* history: the reaction to the last request sent
    searchOut,       \* what the call returned or threw
    \* ---- the App (App.tsx) from its mount to 'running-evaluation'
    flowApp,         \* [nonInteractive, step, knowledgeSource, settings, exited]
    flowBodies,      \* the async bodies its effects have started and not finished
    flowTimers,      \* the pending timeouts of the testing-connection effect
    flowTest,        \* history: the outcome of the last connection test
    flowContinued,   \* history: 'Continue anyway' was chosen since the last test
    flowPrev,        \* history: the step the App was in before the current one
    \* ---- the App (App.tsx) from the moment it enters 'running-evaluation'
    step,              \* const [step, setStep]
    currentAgentId,    \* const [currentAgentId, setCurrentAgentId]
    evaluationResult,  \* const [evaluationResult, setEvaluationResult]
    effectDeps,        \* the dependencies the running-evaluation effect last ran with
    runs,              \* the async bodies the effect has started, one record each
    backend,           \* the setup requests the backend has received, by kind
    evaluationProgress,  \* const [evaluationProgress, setEvaluationProgress]
    progressDropped    \* history: a value below the one before it was published

evalVars == <<prompts, customConfig, pc, i, results, llmCall, lastCalls, cbThrew, summary>>

judgeVars == <<hcCalls, hcResponse, hcJudge, hcOutcome>>

appVars == <<step, currentAgentId, evaluationResult, effectDeps, runs, backend,
             evaluationProgress, progressDropped>>

promptVars == <<atpPrompts, atpRequest>>

probeVars == <<probeAgent, probeConfig, probePc, probeIndex, probeAttempts,
               probeOutcome, evalCall>>

keyVars == <<keySource, keyPc, evaluationTs, knowledgeTs, urlChanges, keyRequests>>

exitVars == <<exitApp, exitBodies, exitTimers, exitCode>>

fnVars == <<fnCall, fnReturns>>

searchVars == <<searchPc, searchResponse, searchLastError, searchSent, searchLast, searchOut>>

flowVars == <<flowApp, flowBodies, flowTimers, flowTest, flowContinued, flowPrev>>

vars == <<evalVars, judgeVars, appVars, promptVars, probeVars, keyVars, exitVars, fnVars,
          searchVars, flowVars>>

Null == [t |-> "null"]

\* --------------------------------------------------------------------------
\* Bounds of the model
\* --------------------------------------------------------------------------
MaxPrompts == 2

\* --------------------------------------------------------------------------
\* Strings (token sequences)
\* --------------------------------------------------------------------------
Str(tok) == <<tok>>

EmptyStr == <<>>

\* String.prototype.startsWith
StartsWith(s, p) == Len(s) >= Len(p) /\ SubSeq(s, 1, Len(p)) = p

\* JS truthiness of a string value
Truthy(s) == s # EmptyStr

ErrorPrefix == Str("Error calling LLM endpoint:")

\* --------------------------------------------------------------------------
\* JSON values
\* --------------------------------------------------------------------------
JStr(s) == [t |-> "string", s |-> s]

JObj(fields) == [t |-> "object", o |-> fields]

JArr(items) == [t |-> "array", a |-> items]

JNum(n) == [t |-> "number", n |-> n]

JBool(b) == [t |-> "boolean", b |-> b]

HasKey(d, k) == d.t = "object" /\ \E n \in 1..Len(d.o) : d.o[n][1] = k

\* data[k]  (undefined is modelled as Null: both are falsy and neither is a string)
Get(d, k) ==
    IF HasKey(d, k)
    THEN d.o[CHOOSE n \in 1..Len(d.o) : d.o[n][1] = k][2]
    ELSE Null

\* JS truthiness of a JSON value
JTruthy(v) ==
    CASE v.t = "null" -> FALSE
      [] v.t = "string" -> Truthy(v.s)
      [] v.t = "number" -> v.n # 0
      [] v.t = "boolean" -> v.b
      [] OTHER -> TRUE

RECURSIVE Stringify(_)
RECURSIVE StringifyFields(_, _)
RECURSIVE StringifyItems(_, _)
\* JSON.stringify
Stringify(v) ==
    CASE v.t = "null" -> Str("null")
      [] v.t = "string" -> Str("\"") \o v.s \o Str("\"")
      [] v.t = "number" -> Str(ToString(v.n))
      [] v.t = "boolean" -> Str(IF v.b THEN "true" ELSE "false")
      [] v.t = "array" -> Str("[") \o StringifyItems(v.a, 1) \o Str("]")
      [] v.t = "object" -> Str("{") \o StringifyFields(v.o, 1) \o Str("}")

StringifyFields(fs, n) ==
    IF n > Len(fs) THEN EmptyStr
    ELSE (IF n > 1 THEN Str(",") ELSE EmptyStr)
         \o Str("\"") \o Str(fs[n][1]) \o Str("\"") \o Str(":") \o Stringify(fs[n][2])
         \o StringifyFields(fs, n + 1)

StringifyItems(items, n) ==
    IF n > Len(items) THEN EmptyStr
    ELSE (IF n > 1 THEN Str(",") ELSE EmptyStr)
         \o Stringify(items[n]) \o StringifyItems(items, n + 1)

\* The text '{}'
EmptyObjectText == Str("{") \o Str("}")

\* --------------------------------------------------------------------------
\* Response extractor (response.ts)
\* --------------------------------------------------------------------------
\* The outcome of a call: a returned value or a thrown error
Ret(v) == [threw |-> FALSE, v |-> v]

Thrown(e) == [threw |-> TRUE, e |-> e]

TypeError ==
    [code |-> "none", message |-> Str("TypeError"), respMessage |-> <<>>, respStatus |-> 0]

responseFields ==
    << "answer", "response", "message", "text", "result",
       "output", "content", "reply", "completion", "data",
       "bot_message", "assistant_message", "ai_response" >>

SetMin(S) == CHOOSE x \in S : \A y \in S : x <= y

\* v[0] of the first element of an array value, v[v.length - 1] of the last
First(v) == v.a[1]

Last(v) == v.a[Len(v.a)]

NonEmptyArray(v) == v.t = "array" /\ Len(v.a) > 0

extractResponseText(data) ==
    IF data.t = "string" THEN Ret(data)
    ELSE IF data.t = "null" THEN Thrown(TypeError)
    ELSE
      LET hits == { n \in 1..Len(responseFields) :
                      /\ JTruthy(Get(data, responseFields[n]))
                      /\ Get(data, responseFields[n]).t = "string" }
          choices == Get(data, "choices")
          messages == Get(data, "messages")
          afterMessages ==
              IF data.t = "object" /\ Len(data.o) = 1 /\ data.o[1][2].t = "string"
              THEN Ret(data.o[1][2])
              ELSE IF data.t = "array" /\ Len(data.a) = 1 /\ data.a[1].t = "string"
              THEN Ret(data.a[1])
              ELSE Ret(JStr(Stringify(data)))
          afterChoices ==
              IF NonEmptyArray(messages)
              THEN IF Last(messages).t = "null" THEN Thrown(TypeError)
                   ELSE IF JTruthy(Get(Last(messages), "content"))
                        THEN Ret(Get(Last(messages), "content"))
                        ELSE afterMessages
              ELSE afterMessages
      IN  IF hits # {} THEN Ret(Get(data, responseFields[SetMin(hits)]))
          ELSE IF NonEmptyArray(choices)
          THEN IF First(choices).t = "null" THEN Thrown(TypeError)
               ELSE IF JTruthy(Get(Get(First(choices), "message"), "content"))
                    THEN Ret(Get(Get(First(choices), "message"), "content"))
                    ELSE IF JTruthy(Get(First(choices), "text"))
                         THEN Ret(Get(First(choices), "text"))
                         ELSE afterChoices
          ELSE afterChoices

\* fieldPath.split(/[.\[\]]/).filter(p => p): a path is a token sequence in which
\* ".", "[" and "]" are tokens of their own
PathSeparators == {".", "[", "]"}

SplitPath(fieldPath) == SelectSeq(fieldPath, LAMBDA tok : tok \notin PathSeparators)

\* /^\d+$/.test(part), and parseInt(part), for the index tokens of the model
IndexTokens == <<"0", "1", "2">>

IsNumeric(part) == \E n \in 1..Len(IndexTokens) : IndexTokens[n] = part

ParseInt(part) == (CHOOSE n \in 1..Len(IndexTokens) : IndexTokens[n] = part) - 1

\* current[part]
Member(current, part) ==
    IF IsNumeric(part)
    THEN IF current.t = "array" /\ ParseInt(part) < Len(current.a)
         THEN current.a[ParseInt(part) + 1]
         ELSE Null
    ELSE Get(current, part)

RECURSIVE Walk(_, _, _)
Walk(current, parts, n) ==
    IF n > Len(parts) \/ current.t = "null" THEN current
    ELSE Walk(Member(current, parts[n]), parts, n + 1)

extractCustomResponseField(data, fieldPath) ==
    LET current == Walk(data, SplitPath(fieldPath), 1)
    IN  IF current.t = "string" THEN Ret(current)
        ELSE IF current.t # "null" THEN Ret(JStr(Stringify(current)))
        ELSE extractResponseText(data)

\* --------------------------------------------------------------------------
\* Errors (errors/types.ts) and the agent endpoint
\* --------------------------------------------------------------------------
\* An Error object: code, message, error.response.data.message (EmptyStr: none) and
\* error.response.status (0: no response)
Error(code, message) ==
    [code |-> code, message |-> message, respMessage |-> EmptyStr, respStatus |-> 0]

\* The error axios throws for a request that got no response
AxiosError(code) ==
    Error(code, IF code = "ECONNABORTED" THEN <<"timeout", " of ", "<ms>", "ms exceeded">>
                ELSE <<"request failed: ", code>>)

ConnectionMessage(code) ==
    CASE code = "CONNECTION_REFUSED" -> Str("Connection refused to ")
      [] code = "CONNECTION_TIMEOUT" -> Str("Connection timeout to ")
      [] code = "CONNECTION_NOT_FOUND" -> Str("Host not found: ")
      [] code = "API_ERROR" -> Str("API error at ")
      [] OTHER -> Str("Network error connecting to ")

ConnectionError(code) == Error(code, ConnectionMessage(code) \o Str("<endpoint>"))

\* generatePayloadVariants(question).length
NumVariants == 13

\* The request shapes an endpoint may see: the variants 1..NumVariants, and 0 for
\* the single request of a custom configuration
CustomShape == 0

\* An agent endpoint: the shapes it answers with status 200 and `body`, and its
\* reaction to every other shape (an HTTP error status, or a network failure)
React(agent, shape) ==
    IF shape \in agent.accept
    THEN [net |-> "ok", status |-> 200, data |-> agent.body]
    ELSE agent.reject

NoResponse == [net |-> "none"]

NoError == [code |-> "no error"]

RECURSIVE TryVariants(_, _, _, _, _)
\* callLLMEndpoint's loop over payloadVariants.entries(), from variant `index`
TryVariants(agent, index, response, lastError, sent) ==
    IF index > NumVariants
    THEN [response |-> response, lastError |-> lastError, sent |-> sent]
    ELSE LET r == React(agent, index)
         IN  IF r.net # "ok"
             THEN TryVariants(agent, index + 1, response, AxiosError(r.net), sent + 1)
             ELSE IF r.status < 400
             THEN [response |-> r, lastError |-> lastError, sent |-> sent + 1]
             ELSE TryVariants(agent, index + 1, r,
                              Error("none", <<"HTTP ", ToString(r.status)>>), sent + 1)

IsCustom(config) ==
    config.t # "null" /\ (config.headers \/ Truthy(config.bodyTemplate))

\* The body template the App falls back to (App.tsx)
DefaultTemplate == <<"{\"message\": \"", "[eval-question]", "\"}">>

\* The shape of the single request of a custom configuration: a GET carries no
\* body; without a template, or with the App's default one, the body is
\* {message: question}, which is variant 2 of the catalogue; any other template
\* builds a body of its own
CustomRequestShape(config) ==
    IF config.method = Str("get") THEN CustomShape
    ELSE IF ~Truthy(config.bodyTemplate) \/ config.bodyTemplate = DefaultTemplate THEN 2
    ELSE CustomShape

\* The body of callLLMEndpoint's try block: a response text, or the error thrown
CallLLMTry(config, agent) ==
    LET extract(data) ==
            LET ex == IF config.t # "null" /\ Truthy(config.responseField)
                      THEN extractCustomResponseField(data, config.responseField)
                      ELSE extractResponseText(data)
            IN  IF ex.threw THEN [threw |-> TRUE, e |-> ex.e]
                ELSE IF ex.v.t # "string" THEN [threw |-> TRUE, e |-> TypeError]
                ELSE [threw |-> FALSE, v |-> ex.v.s]
    IN  IF IsCustom(config)
        THEN LET r == React(agent, CustomRequestShape(config))
             IN  [sent |-> 1,
                  out |-> IF r.net # "ok" THEN Thrown(AxiosError(r.net))
                          ELSE IF r.status >= 400 THEN Thrown(ConnectionError("API_ERROR"))
                          ELSE extract(r.data)]
        ELSE LET loop == TryVariants(agent, 1, NoResponse, NoError, 0)
             IN  [sent |-> loop.sent,
                  out |-> IF loop.response.net = "none" \/ loop.response.status >= 400
                          THEN IF loop.lastError.code # "no error"
                               THEN Thrown(loop.lastError)
                               ELSE Thrown(Error("none", Str("LLM endpoint returned error")))
                          ELSE extract(loop.response.data)]

\* callLLMEndpoint: [sent: the agent requests issued, out: Ret(text) or Thrown(error)]
callLLMEndpoint(config, agent) ==
    LET t == CallLLMTry(config, agent)
    IN  IF ~t.out.threw THEN t
        ELSE [sent |-> t.sent,
              out |-> CASE t.out.e.code = "ECONNREFUSED" ->
                             Thrown(ConnectionError("CONNECTION_REFUSED"))
                        [] t.out.e.code = "ETIMEDOUT" ->
                             Thrown(ConnectionError("CONNECTION_TIMEOUT"))
                        [] t.out.e.code = "ENOTFOUND" ->
                             Thrown(ConnectionError("CONNECTION_NOT_FOUND"))
                        [] OTHER -> t.out]

\* --------------------------------------------------------------------------
\* The hallucination judge (evaluation.ts, checkHallucination)
\* --------------------------------------------------------------------------
\* A verdict: the HallucinationCheckResult fields the orchestrator reads (status,
\* hallucinationLabel, and the length of hallucinationFindings); question,
\* llmResponse, summary and facts are carried along unread and are left out
Verdict(status, label, findings) ==
    [status |-> status, hallucinationLabel |-> label,
     hallucinationFindings |-> findings]

\* x || dflt, for strings
OrElse(x, dflt) == IF Truthy(x) THEN x ELSE dflt

\* The error the backend client (axios, default validateStatus) throws for a
\* response whose status is outside 2xx
HttpError(status, respMessage) ==
    [code |-> "ERR_BAD_RESPONSE",
     message |-> <<"Request failed with status code ", ToString(status)>>,
     respMessage |-> respMessage, respStatus |-> status]

\* A try block that skips the judge for the empty response only
SkipJudgeWhenEmpty(llmResponse, judge) ==
    IF ~Truthy(llmResponse)
    THEN [threw |-> FALSE, requests |-> 0,
          v |-> Verdict(Str("failed"), EmptyStr, 0)]
    ELSE IF judge.net # "ok"
    THEN [threw |-> TRUE, requests |-> 1, e |-> AxiosError(judge.net)]
    ELSE IF judge.status < 200 \/ judge.status >= 300
    THEN [threw |-> TRUE, requests |-> 1, e |-> HttpError(judge.status, EmptyStr)]
    ELSE IF judge.data.t = "null"
    THEN [threw |-> TRUE, requests |-> 1, e |-> TypeError]
    ELSE [threw |-> FALSE, requests |-> 1,
          v |-> Verdict(OrElse(judge.data.status, Str("passed")),
                        OrElse(judge.data.label, Str("FactIsPresent")),
                        judge.data.findings)]

\* The try block of checkHallucination, given the judge's reaction to the request:
\* [net: "ok", status, data: Null or [t, status, label, findings]] or
\* [net: <error code>]. `requests` counts the judge requests sent.
CheckHallucinationTry(llmResponse, judge) ==
    IF ~Truthy(llmResponse) \/ StartsWith(llmResponse, ErrorPrefix)
    THEN [threw |-> FALSE, requests |-> 0,
          v |-> Verdict(Str("failed"), EmptyStr, 0)]
    ELSE IF judge.net # "ok"
    THEN [threw |-> TRUE, requests |-> 1, e |-> AxiosError(judge.net)]
    ELSE IF judge.status < 200 \/ judge.status >= 300
    THEN [threw |-> TRUE, requests |-> 1, e |-> HttpError(judge.status, EmptyStr)]
    ELSE IF judge.data.t = "null"
    THEN [threw |-> TRUE, requests |-> 1, e |-> TypeError]
    ELSE [threw |-> FALSE, requests |-> 1,
          v |-> Verdict(OrElse(judge.data.status, Str("passed")),
                        OrElse(judge.data.label, Str("FactIsPresent")),
                        judge.data.findings)]

\* A catch block that passes only the 404 and rethrows every other error
CatchRethrowsUnless404(error, requests) ==
    IF error.respStatus = 404
    THEN [threw |-> FALSE, requests |-> requests,
          v |-> Verdict(Str("passed"), Str("FactIsPresent"), 0)]
    ELSE [threw |-> TRUE, requests |-> requests, e |-> error]

\* The catch block of checkHallucination
CheckHallucinationCatch(error, requests) ==
    IF error.respStatus = 404
    THEN [threw |-> FALSE, requests |-> requests,
          v |-> Verdict(Str("passed"), Str("FactIsPresent"), 0)]
    ELSE [threw |-> FALSE, requests |-> requests,
          v |-> Verdict(Str("passed"), Str("FactIsPresent"), 0)]

checkHallucination(llmResponse, judge) ==
    LET t == CheckHallucinationTry(llmResponse, judge)
    IN  IF t.threw THEN CheckHallucinationCatch(t.e, t.requests) ELSE t

\* --------------------------------------------------------------------------
\* runPromptEvaluation (evaluation.ts)
\* --------------------------------------------------------------------------
\* Whether the k-th result write of a prompt succeeds
WriteOk(w, k) == k > w

\* A result write that records 'failed' whatever status it is given
FailedResultWrite(agentId, promptId, kind, status, response, hasLabel, hasFindings, ok) ==
    [agentId |-> agentId, promptId |-> promptId, kind |-> kind, status |-> "failed",
     response |-> response, hasLabel |-> hasLabel, hasFindings |-> hasFindings,
     ok |-> ok]

\* A POST to /api/agents/<agentId>/test-results/<promptId>
TestResultWrite(agentId, promptId, kind, status, response, hasLabel, hasFindings, ok) ==
    [agentId |-> agentId, promptId |-> promptId, kind |-> kind, status |-> status,
     response |-> response, hasLabel |-> hasLabel, hasFindings |-> hasFindings,
     ok |-> ok]

StoreError == HttpError(500, Str("could not store the result"))

CallbackError == Error("none", Str("progress callback failed"))

\* hallucinationResult is absent
NoVerdict == Verdict(EmptyStr, EmptyStr, 0)

LenientVerdict == Verdict(Str("passed"), Str("NO_HALLUCINATION"), 0)

\* A status that is 'failed' only for the verdict 'failed'
StatusOfLenient(verdictStatus) ==
    IF verdictStatus = Str("failed") THEN "failed" ELSE "passed"

\* const status = hallucinationResult.status === 'passed' ? 'passed' : 'failed'
StatusOf(verdictStatus) == IF verdictStatus = Str("passed") THEN "passed" ELSE "failed"

\* A catch block without the leniency path
NeverLenient(llmResponse) == FALSE

\* A catch block that always takes the leniency path
AlwaysLenient(llmResponse) == TRUE

\* if (llmResponse): the catch block takes the leniency path
RespondedBeforeFailure(llmResponse) == Truthy(llmResponse)

\* What checkHallucination returned to runPromptEvaluation, if it was called
Judged(verdict) == [called |-> TRUE, v |-> verdict]

NotJudged == [called |-> FALSE, v |-> NoVerdict]

\* The try block of runPromptEvaluation.
\*   llm:   the outcome of callLLMEndpoint (Ret(text) or Thrown(error))
\*   cb:    the onLLMResponse callback throws when it is called
\*   judge: the judge's reaction
\*   w:     the number of result writes of this prompt that fail before one
\*          succeeds (writes are attempted one after the other)
RunPromptTry(agentId, prompt, llm, cb, judge, w) ==
    LET llmResponse == IF llm.threw THEN EmptyStr ELSE llm.v
        hr == checkHallucination(llmResponse, judge)
        status == StatusOf(hr.v.status)
        full == TestResultWrite(agentId, prompt.id, "full", status, llmResponse,
                                Truthy(hr.v.hallucinationLabel),
                                hr.v.hallucinationFindings > 0, WriteOk(w, 1))
        minimal == TestResultWrite(agentId, prompt.id, "minimal", status, llmResponse,
                                   Truthy(hr.v.hallucinationLabel), FALSE, WriteOk(w, 2))
        returned(writes) ==
            [threw |-> FALSE, writes |-> writes, judgeRequests |-> hr.requests,
             judged |-> Judged(hr.v),
             result |-> [success |-> status = "passed", question |-> prompt.prompt,
                         llmResponse |-> llmResponse, hallucinationResult |-> hr.v,
                         error |-> EmptyStr]]
        thrown(e, writes, requests, judged) ==
            [threw |-> TRUE, e |-> e, writes |-> writes, judgeRequests |-> requests,
             judged |-> judged, llmResponse |-> llmResponse]
    IN  IF llm.threw THEN thrown(llm.e, <<>>, 0, NotJudged)
        ELSE IF cb THEN thrown(CallbackError, <<>>, 0, NotJudged)
        ELSE IF hr.threw THEN thrown(hr.e, <<>>, hr.requests, NotJudged)
        ELSE IF WriteOk(w, 1) THEN returned(<<full>>)
        ELSE IF WriteOk(w, 2) THEN returned(<<full, minimal>>)
        ELSE thrown(StoreError, <<full, minimal>>, hr.requests, Judged(hr.v))

\* The catch block of runPromptEvaluation, entered with what the try block did
RunPromptCatch(agentId, prompt, t, cb, w) ==
    LET n == Len(t.writes)
        errorMessage == OrElse(t.e.respMessage, OrElse(t.e.message, Str("Unknown error")))
        errorResponse == ErrorPrefix \o errorMessage
        lenient == TestResultWrite(agentId, prompt.id, "lenient", "passed",
                                   t.llmResponse, FALSE, FALSE, WriteOk(w, n + 1))
        failed == TestResultWrite(agentId, prompt.id, "failed", "failed",
                                  errorResponse, FALSE, FALSE, WriteOk(w, n + 1))
        statusOnly == TestResultWrite(agentId, prompt.id, "statusOnly", "failed",
                                      EmptyStr, FALSE, FALSE, WriteOk(w, n + 2))
    IN  IF RespondedBeforeFailure(t.llmResponse)
        THEN [threw |-> FALSE, writes |-> t.writes \o <<lenient>>,
              judgeRequests |-> t.judgeRequests, judged |-> t.judged,
              result |-> [success |-> TRUE, question |-> prompt.prompt,
                          llmResponse |-> t.llmResponse,
                          hallucinationResult |-> LenientVerdict,
                          error |-> EmptyStr]]
        ELSE LET writes == t.writes \o (IF WriteOk(w, n + 1) THEN <<failed>>
                                        ELSE <<failed, statusOnly>>)
             IN  IF cb
                 THEN [threw |-> TRUE, e |-> CallbackError, writes |-> writes,
                       judgeRequests |-> t.judgeRequests, judged |-> t.judged]
                 ELSE [threw |-> FALSE, writes |-> writes,
                       judgeRequests |-> t.judgeRequests, judged |-> t.judged,
                       result |-> [success |-> FALSE, question |-> prompt.prompt,
                                   llmResponse |-> errorResponse,
                                   hallucinationResult |-> NoVerdict,
                                   error |-> errorMessage]]

\* runPromptEvaluation: [threw, result, writes, judgeRequests, judged]
runPromptEvaluation(agentId, prompt, llm, cb, judge, w) ==
    LET t == RunPromptTry(agentId, prompt, llm, cb, judge, w)
    IN  IF t.threw THEN RunPromptCatch(agentId, prompt, t, cb, w) ELSE t

\* --------------------------------------------------------------------------
\* The environment of an evaluation: agent endpoints, judge reactions, writes
\* --------------------------------------------------------------------------
HelloText == Str("hello")

AgentBodies ==
    { JStr(HelloText), JStr(EmptyStr), JObj(<< <<"answer", JStr(HelloText)>> >>), Null }

AgentRejects ==
    { [net |-> "ok", status |-> 500, data |-> Null],
      [net |-> "ECONNREFUSED"], [net |-> "ENOTFOUND"],
      [net |-> "ETIMEDOUT"], [net |-> "ECONNABORTED"] }

\* Every shape, no shape, only the {message: q} variant, only the custom request
AcceptSets == { 0..NumVariants, {}, {2}, {CustomShape} }

Agents ==
    { [accept |-> A, body |-> b, reject |-> r] :
        A \in AcceptSets, b \in AgentBodies, r \in AgentRejects }

JudgeData(status, label, findings) ==
    [t |-> "object", status |-> status, label |-> label, findings |-> findings]

Judges ==
    { [net |-> "ok", status |-> 200, data |-> JudgeData(Str("passed"), Str("FactIsPresent"), 0)],
      [net |-> "ok", status |-> 200, data |-> JudgeData(Str("failed"), Str("Hallucination"), 1)],
      [net |-> "ok", status |-> 200, data |-> JudgeData(Str("ambiguous"), EmptyStr, 0)],
      [net |-> "ok", status |-> 200, data |-> JudgeData(EmptyStr, EmptyStr, 0)],
      [net |-> "ok", status |-> 200, data |-> Null],
      [net |-> "ok", status |-> 404, data |-> Null],
      [net |-> "ok", status |-> 500, data |-> Null],
      [net |-> "ECONNREFUSED"] }

\* The number of failing writes before one succeeds: at most four result writes
\* are attempted for one prompt
WriteOutcomes == 0..4

\* The prompts a backend may return from addTestPrompts: n prompts, the k-th with
\* id k and a question of its own; every other one has an expected answer
CreatedPrompt(k) ==
    [id |-> k, prompt |-> <<"question ", ToString(k)>>,
     expectedAnswer |-> IF k % 2 = 1 THEN <<"answer ", ToString(k)>> ELSE EmptyStr]

CreatedPrompts(n) == [k \in 1..n |-> CreatedPrompt(k)]

PromptLists == { CreatedPrompts(n) : n \in 0..MaxPrompts }

NoConfig == [t |-> "null"]

\* The evalConfig of the App when the operator configured nothing (App.tsx)
DefaultEvalConfig ==
    [t |-> "config", headers |-> FALSE,
     bodyTemplate |-> DefaultTemplate,
     responseField |-> EmptyStr, method |-> EmptyStr]

AgentId == "agent-1"

\* --------------------------------------------------------------------------
\* runAllPromptEvaluations (evaluation.ts), then the summary of runEvaluation
\* (knowledge.ts), which passes no customConfig
\* --------------------------------------------------------------------------
\* What the evaluation of one prompt was given and did: the outcome of the agent
\* call, whether the callback threw, what the judge returned, the requests made,
\* and whether runPromptEvaluation threw
NoCalls ==
    [prompt |-> 0, llm |-> Ret(EmptyStr), cb |-> FALSE, judged |-> NotJudged,
     agentRequests |-> 0, judgeRequests |-> 0, writes |-> <<>>, threw |-> FALSE]

NoLlmCall == [sent |-> 0]

\* The variables of the other specifications stay at these values
JudgeIdle ==
    /\ hcCalls = 0
    /\ hcResponse = EmptyStr
    /\ hcJudge = NoResponse
    /\ hcOutcome = NotJudged

PromptsIdle ==
    /\ atpPrompts = Null
    /\ atpRequest = [sent |-> FALSE, prompts |-> <<>>]

FnIdle ==
    /\ fnCall = Null
    /\ fnReturns = <<>>

SearchIdle ==
    /\ searchPc = "idle"
    /\ searchResponse = NoResponse
    /\ searchLastError = NoError
    /\ searchSent = <<>>
    /\ searchLast = NoResponse
    /\ searchOut = Null

FlowIdle ==
    /\ flowApp = Null
    /\ flowBodies = <<>>
    /\ flowTimers = <<>>
    /\ flowTest = "none"
    /\ flowContinued = FALSE
    /\ flowPrev = ""

\* The process has not exited
NotExited == -1

ExitIdle ==
    /\ exitApp = Null
    /\ exitBodies = <<>>
    /\ exitTimers = <<>>
    /\ exitCode = NotExited

KeyIdle ==
    /\ keySource = "none"
    /\ keyPc = 0
    /\ evaluationTs = Null
    /\ knowledgeTs = Null
    /\ urlChanges = 0
    /\ keyRequests = <<>>

ProbeIdle ==
    /\ probeAgent = Null
    /\ probeConfig = Null
    /\ probePc = "idle"
    /\ probeIndex = 0
    /\ probeAttempts = <<>>
    /\ probeOutcome = Null
    /\ evalCall = NoLlmCall

AppIdle ==
    /\ step = "idle"
    /\ currentAgentId = ""
    /\ evaluationResult = Null
    /\ effectDeps = <<"idle", "">>
    /\ runs = <<>>
    /\ backend = [generateApiKey |-> 0, createAgent |-> 0, addTestPrompts |-> 0]
    /\ evaluationProgress = 0
    /\ progressDropped = FALSE

EvalInit ==
    /\ JudgeIdle
    /\ AppIdle
    /\ PromptsIdle
    /\ ProbeIdle
    /\ KeyIdle
    /\ ExitIdle
    /\ FnIdle
    /\ SearchIdle
    /\ FlowIdle
    /\ prompts \in PromptLists
    /\ customConfig \in {NoConfig, DefaultEvalConfig}
    /\ pc = "loop"
    /\ i = 0
    /\ results = <<>>
    /\ llmCall = NoLlmCall
    /\ lastCalls = NoCalls
    /\ cbThrew = FALSE
    /\ summary = Null

\* Whether a call of the caller's progress callback throws
CallbackOutcomes == BOOLEAN

\* A push that drops the results of failed prompts
PushUnlessFailed(rs, r) == IF r.success THEN Append(rs, r) ELSE rs

\* results.push(result)
Push(rs, r) == Append(rs, r)

\* for (let i = 0; i < prompts.length; i++)
LoopCondition(index, list) == index < Len(list)

\* What follows runPromptEvaluation in the loop body: an exception leaves the loop
\* through the catch around it, a result is pushed
AfterPrompt(rs, r) ==
    IF r.threw
    THEN [pc |-> "returned", results |-> rs]
    ELSE [pc |-> "sleep", results |-> Push(rs, r.result)]

\* onProgress(i + 1, prompts.length, prompt.prompt), then runPromptEvaluation is
\* entered and sends the agent call
LoopProgress ==
    /\ pc = "loop"
    /\ LoopCondition(i, prompts)
    /\ \E throws \in CallbackOutcomes :
         /\ pc' = IF throws THEN "returned" ELSE "agent"
         /\ cbThrew' = (cbThrew \/ throws)
    /\ UNCHANGED <<prompts, customConfig, i, results, llmCall, lastCalls, summary,
                 judgeVars, appVars, promptVars, probeVars, keyVars, exitVars, fnVars, searchVars, flowVars>>

\* await callLLMEndpoint(...) completes
AgentResponds ==
    /\ pc = "agent"
    /\ \E agent \in Agents : llmCall' = callLLMEndpoint(customConfig, agent)
    /\ pc' = "judge"
    /\ UNCHANGED <<prompts, customConfig, i, results, lastCalls, cbThrew, summary,
                 judgeVars, appVars, promptVars, probeVars, keyVars, exitVars, fnVars, searchVars, flowVars>>

\* The rest of runPromptEvaluation, and results.push(result)
FinishPrompt ==
    /\ pc = "judge"
    /\ \E cb \in CallbackOutcomes, judge \in Judges, w \in WriteOutcomes :
         LET r == runPromptEvaluation(AgentId, prompts[i + 1], llmCall.out, cb, judge, w)
             after == AfterPrompt(results, r)
         IN  /\ pc' = after.pc
             /\ results' = after.results
             /\ cbThrew' = (cbThrew \/ cb)
             /\ lastCalls' = [prompt |-> i + 1, llm |-> llmCall.out, cb |-> cb,
                              judged |-> r.judged,
                              agentRequests |-> llmCall.sent,
                              judgeRequests |-> r.judgeRequests,
                              writes |-> r.writes, threw |-> r.threw]
    /\ llmCall' = NoLlmCall
    /\ UNCHANGED <<prompts, customConfig, i, summary,
                 judgeVars, appVars, promptVars, probeVars, keyVars, exitVars, fnVars, searchVars, flowVars>>

\* await new Promise(resolve => setTimeout(resolve, 500)); i++
Sleep ==
    /\ pc = "sleep"
    /\ pc' = "loop"
    /\ i' = i + 1
    /\ UNCHANGED <<prompts, customConfig, results, llmCall, lastCalls, cbThrew, summary,
                 judgeVars, appVars, promptVars, probeVars, keyVars, exitVars, fnVars, searchVars, flowVars>>

\* return results
LoopExit ==
    /\ pc = "loop"
    /\ ~LoopCondition(i, prompts)
    /\ pc' = "returned"
    /\ UNCHANGED <<prompts, customConfig, i, results, llmCall, lastCalls, cbThrew, summary,
                 judgeVars, appVars, promptVars, probeVars, keyVars, exitVars, fnVars, searchVars, flowVars>>

RECURSIVE CountSuccess(_, _)
\* evaluationResults.forEach(result => result.success ? passed++ : failed++)
CountSuccess(rs, flag) ==
    IF rs = <<>> THEN 0
    ELSE (IF Head(rs).success = flag THEN 1 ELSE 0) + CountSuccess(Tail(rs), flag)

\* promptCount || 5
TotalTestsOfRunEvaluation(promptCount) == IF promptCount # 0 THEN promptCount ELSE 5

\* The value runEvaluation returns
RunEvaluationSummary(created, rs) ==
    [totalTests |-> TotalTestsOfRunEvaluation(Len(created)),
     passed |-> CountSuccess(rs, TRUE),
     failed |-> CountSuccess(rs, FALSE)]

Summarise ==
    /\ pc = "returned"
    /\ customConfig.t = "null"
    /\ pc' = "summarised"
    /\ summary' = RunEvaluationSummary(prompts, results)
    /\ UNCHANGED <<prompts, customConfig, i, results, llmCall, lastCalls, cbThrew,
                 judgeVars, appVars, promptVars, probeVars, keyVars, exitVars, fnVars, searchVars, flowVars>>

EvalNext ==
    \/ LoopProgress
    \/ AgentResponds
    \/ FinishPrompt
    \/ Sleep
    \/ LoopExit
    \/ Summarise

SpecEval == EvalInit /\ [][EvalNext]_vars

EvalIdle ==
    /\ prompts = <<>>
    /\ customConfig = NoConfig
    /\ pc = "idle"
    /\ i = 0
    /\ results = <<>>
    /\ llmCall = NoLlmCall
    /\ lastCalls = NoCalls
    /\ cbThrew = FALSE
    /\ summary = Null

\* --------------------------------------------------------------------------
\* checkHallucination called on its own (evaluation.ts)
\* --------------------------------------------------------------------------
MaxChecks == 2

\* Response texts checkHallucination is called with: none, a synthesized error
\* text, and agent answers
JudgeTexts ==
    { EmptyStr, ErrorPrefix \o Str("connect ECONNREFUSED"), ErrorPrefix,
      HelloText, Str("I do not know"), EmptyObjectText,
      Stringify(JObj(<< <<"answer", JStr(HelloText)>> >>)) }

\* Reactions of the judge endpoint: those of an evaluation, and further statuses
\* and network failures
JudgeReactions ==
    Judges \cup
    { [net |-> "ok", status |-> 201, data |-> JudgeData(Str("failed"), EmptyStr, 2)],
      [net |-> "ok", status |-> 400, data |-> Null],
      [net |-> "ok", status |-> 401, data |-> Null],
      [net |-> "ok", status |-> 503, data |-> Null],
      [net |-> "ETIMEDOUT"], [net |-> "ENOTFOUND"] }

JudgeInit ==
    /\ EvalIdle
    /\ AppIdle
    /\ PromptsIdle
    /\ ProbeIdle
    /\ KeyIdle
    /\ ExitIdle
    /\ FnIdle
    /\ SearchIdle
    /\ FlowIdle
    /\ JudgeIdle

\* One call of checkHallucination(agentId, question, llmResponse, expectedAnswer)
CheckHallucinationCall ==
    /\ hcCalls < MaxChecks
    /\ \E llmResponse \in JudgeTexts, judge \in JudgeReactions :
         LET out == checkHallucination(llmResponse, judge)
         IN  /\ hcResponse' = llmResponse
             /\ hcJudge' = IF out.requests = 0 THEN NoResponse ELSE judge
             /\ hcOutcome' = out
    /\ hcCalls' = hcCalls + 1
    /\ UNCHANGED <<evalVars, appVars, promptVars, probeVars, keyVars, exitVars, fnVars, searchVars, flowVars>>

JudgeNext == CheckHallucinationCall

SpecJudge == JudgeInit /\ [][JudgeNext]_vars

\* --------------------------------------------------------------------------
\* The App from the moment it enters 'running-evaluation' (App.tsx): the
\* running-evaluation effect and the async bodies it starts
\* --------------------------------------------------------------------------
\* The id the backend gives the agent it creates
CreatedAgentId == AgentId

\* The environment of the App's evaluations: an agent that answers the
\* {message: question} request, one that answers nothing, one that refuses the connection; a judge that
\* passes, one that fails, one that is down; every result write succeeds, the first
\* two fail, or all fail
AppAgents ==
    { [accept |-> {2}, body |-> JStr(HelloText),
       reject |-> [net |-> "ok", status |-> 500, data |-> Null]],
      [accept |-> {2}, body |-> JStr(EmptyStr),
       reject |-> [net |-> "ok", status |-> 500, data |-> Null]],
      [accept |-> {}, body |-> Null, reject |-> [net |-> "ECONNREFUSED"]] }

AppJudges ==
    { [net |-> "ok", status |-> 200, data |-> JudgeData(Str("passed"), Str("FactIsPresent"), 0)],
      [net |-> "ok", status |-> 200, data |-> JudgeData(Str("failed"), Str("Hallucination"), 1)],
      [net |-> "ok", status |-> 503, data |-> Null] }

AppWriteOutcomes == {0, 2, 4}

\* Whether a setup request to the backend succeeds
BackendOutcomes == BOOLEAN

\* The async body started by one run of the effect: where it is, the agentId it
\* works with (initially the currentAgentId of the render the effect ran in), the
\* prompts addTestPrompts returned, and of its runAllPromptEvaluations call the
\* loop variable, the outcome of the agent call awaited and the results (of which
\* the App reads result.success)
NewRun(agentId) ==
    [at |-> "generateApiKey", agentId |-> agentId, createdPrompts |-> <<>>,
     i |-> 0, llm |-> Ret(EmptyStr), evaluationResults |-> <<>>]

\* The knowledge source is a PDF and the uploading-pdf effect has created the
\* agent, or it is another source and no agent exists yet
AppInit ==
    /\ EvalIdle
    /\ JudgeIdle
    /\ PromptsIdle
    /\ ProbeIdle
    /\ KeyIdle
    /\ ExitIdle
    /\ FnIdle
    /\ SearchIdle
    /\ FlowIdle
    /\ step = "running-evaluation"
    /\ currentAgentId \in {"", CreatedAgentId}
    /\ evaluationResult = Null
    /\ effectDeps = <<"idle", "">>
    /\ runs = <<>>
    /\ backend = [generateApiKey |-> 0, createAgent |-> 0, addTestPrompts |-> 0]
    /\ evaluationProgress = 0
    /\ progressDropped = FALSE

\* The value of the effect's dependencies that can change from here on
Deps == <<step, currentAgentId>>

\* Whether a value of the sequence is below the one before it
Drops(values) == \E k \in 1..(Len(values) - 1) : values[k + 1] < values[k]

\* setEvaluationProgress(v) for each v of values, in order
Published(values) ==
    /\ evaluationProgress' = values[Len(values)]
    /\ progressDropped' = (progressDropped \/ Drops(<<evaluationProgress>> \o values))

\* Math.round(x / y) for x >= 0, y > 0
RoundDiv(x, y) == (2 * x + y) \div (2 * y)

\* const progress = 50 + Math.round((current / total) * 40)
CallbackProgress(current, total) == 50 + RoundDiv(current * 40, total)

\* After a render in which a dependency changed, React runs the effect; if
\* step === 'running-evaluation' it starts the async body, which runs up to its
\* first await
EffectRuns ==
    /\ Deps # effectDeps
    /\ effectDeps' = Deps
    /\ IF step = "running-evaluation"
       THEN /\ runs' = Append(runs, NewRun(currentAgentId))
            /\ Published(<<5>>)
       ELSE UNCHANGED <<runs, evaluationProgress, progressDropped>>
    /\ UNCHANGED <<step, currentAgentId, evaluationResult, backend, evalVars, judgeVars, promptVars, probeVars, keyVars, exitVars, fnVars, searchVars, flowVars>>

\* The summary set by the catch block of the effect
FailureSummary == [totalTests |-> 0, passed |-> 0, failed |-> 0, error |-> TRUE]

\* The summary set when runAllPromptEvaluations has returned
AppSummary(createdPrompts, evaluationResults) ==
    [totalTests |-> Len(createdPrompts),
     passed |-> CountSuccess(evaluationResults, TRUE),
     failed |-> CountSuccess(evaluationResults, FALSE),
     error |-> FALSE]

\* catch (error) { setEvaluationResult({...}); setStep('complete') }
Caught(r) ==
    /\ runs' = [runs EXCEPT ![r].at = "failed"]
    /\ evaluationResult' = FailureSummary
    /\ step' = "complete"
    /\ UNCHANGED <<evaluationProgress, progressDropped>>

\* await api.generateApiKey('CLI Evaluation') completes
GenerateApiKey(r) ==
    /\ runs[r].at = "generateApiKey"
    /\ backend' = [backend EXCEPT !.generateApiKey = @ + 1]
    /\ \E ok \in BackendOutcomes :
         IF ok
         THEN /\ runs' = [runs EXCEPT ![r].at = IF runs[r].agentId = ""
                                                THEN "createAgent"
                                                ELSE "addTestPrompts"]
              /\ Published(IF runs[r].agentId = "" THEN <<10>> ELSE <<10, 30, 40>>)
              /\ UNCHANGED <<step, evaluationResult>>
         ELSE Caught(r)
    /\ UNCHANGED <<currentAgentId, effectDeps, evalVars, judgeVars, promptVars, probeVars, keyVars, exitVars, fnVars, searchVars, flowVars>>

\* await api.createAgent(...) completes; setCurrentAgentId(agentId)
CreateAgent(r) ==
    /\ runs[r].at = "createAgent"
    /\ backend' = [backend EXCEPT !.createAgent = @ + 1]
    /\ \E ok \in BackendOutcomes :
         IF ok
         THEN /\ runs' = [runs EXCEPT ![r].at = "addTestPrompts",
                                      ![r].agentId = CreatedAgentId]
              /\ currentAgentId' = CreatedAgentId
              /\ Published(<<30, 40>>)
              /\ UNCHANGED <<step, evaluationResult>>
         ELSE /\ Caught(r)
              /\ UNCHANGED currentAgentId
    /\ UNCHANGED <<effectDeps, evalVars, judgeVars, promptVars, probeVars, keyVars, exitVars, fnVars, searchVars, flowVars>>

\* await api.addTestPrompts(agentId, testPrompts) completes
AddTestPrompts(r) ==
    /\ runs[r].at = "addTestPrompts"
    /\ backend' = [backend EXCEPT !.addTestPrompts = @ + 1]
    /\ \E ok \in BackendOutcomes :
         IF ok
         THEN /\ \E created \in PromptLists :
                   runs' = [runs EXCEPT ![r].at = "loop",
                                        ![r].createdPrompts = created]
              /\ Published(<<50>>)
              /\ UNCHANGED <<step, evaluationResult>>
         ELSE Caught(r)
    /\ UNCHANGED <<currentAgentId, effectDeps, evalVars, judgeVars, promptVars, probeVars, keyVars, exitVars, fnVars, searchVars, flowVars>>

\* The loop of runAllPromptEvaluations: the progress callback of the App (which
\* does not throw), then the agent request of prompt i + 1 is sent
AppLoopProgress(r) ==
    /\ runs[r].at = "loop"
    /\ LoopCondition(runs[r].i, runs[r].createdPrompts)
    /\ runs' = [runs EXCEPT ![r].at = "agent"]
    /\ Published(<<CallbackProgress(runs[r].i + 1, Len(runs[r].createdPrompts))>>)
    /\ UNCHANGED <<step, currentAgentId, evaluationResult, effectDeps, backend,
                   evalVars, judgeVars, promptVars, probeVars, keyVars, exitVars, fnVars, searchVars, flowVars>>

\* What the App reads of a result
SuccessOf(result) == [success |-> result.success]

\* await callLLMEndpoint(agentEndpoint, prompt.prompt, evalConfig) completes; if it
\* returned, onLLMResponse(llmResponse) calls the progress callback
AppAgentResponds(r) ==
    /\ runs[r].at = "agent"
    /\ \E agent \in AppAgents :
         LET llm == callLLMEndpoint(DefaultEvalConfig, agent).out
         IN  /\ runs' = [runs EXCEPT ![r].at = "judge", ![r].llm = llm]
             /\ IF llm.threw
                THEN UNCHANGED <<evaluationProgress, progressDropped>>
                ELSE Published(<<CallbackProgress(runs[r].i + 1,
                                                  Len(runs[r].createdPrompts))>>)
    /\ UNCHANGED <<step, currentAgentId, evaluationResult, effectDeps, backend,
                   evalVars, judgeVars, promptVars, probeVars, keyVars, exitVars, fnVars, searchVars, flowVars>>

\* The rest of runPromptEvaluation (which, when the agent call threw, calls the
\* progress callback with the error text), and results.push(result)
AppFinishPrompt(r) ==
    /\ runs[r].at = "judge"
    /\ \E judge \in AppJudges, w \in AppWriteOutcomes :
         LET run == runs[r]
             res == runPromptEvaluation(run.agentId, run.createdPrompts[run.i + 1],
                                        run.llm, FALSE, judge, w)
             after == AfterPrompt(run.evaluationResults,
                                  [threw |-> res.threw, result |-> SuccessOf(res.result)])
         IN  runs' = [runs EXCEPT ![r].at = after.pc,
                                  ![r].llm = Ret(EmptyStr),
                                  ![r].evaluationResults = after.results]
    /\ IF runs[r].llm.threw
       THEN Published(<<CallbackProgress(runs[r].i + 1, Len(runs[r].createdPrompts))>>)
       ELSE UNCHANGED <<evaluationProgress, progressDropped>>
    /\ UNCHANGED <<step, currentAgentId, evaluationResult, effectDeps, backend,
                   evalVars, judgeVars, promptVars, probeVars, keyVars, exitVars, fnVars, searchVars, flowVars>>

\* await new Promise(resolve => setTimeout(resolve, 500)); i++
AppSleep(r) ==
    /\ runs[r].at = "sleep"
    /\ runs' = [runs EXCEPT ![r].at = "loop", ![r].i = @ + 1]
    /\ UNCHANGED <<evaluationProgress, progressDropped>>
    /\ UNCHANGED <<step, currentAgentId, evaluationResult, effectDeps, backend,
                   evalVars, judgeVars, promptVars, probeVars, keyVars, exitVars, fnVars, searchVars, flowVars>>

\* runAllPromptEvaluations returns; setEvaluationResult(result); setStep('complete')
AppComplete(r) ==
    /\ runs[r].at = "loop"
    /\ ~LoopCondition(runs[r].i, runs[r].createdPrompts)
    /\ runs' = [runs EXCEPT ![r].at = "done"]
    /\ evaluationResult' = AppSummary(runs[r].createdPrompts, runs[r].evaluationResults)
    /\ step' = "complete"
    /\ Published(<<100>>)
    /\ UNCHANGED <<currentAgentId, effectDeps, backend, evalVars, judgeVars, promptVars, probeVars, keyVars, exitVars, fnVars, searchVars, flowVars>>

AppNext ==
    \/ EffectRuns
    \/ \E r \in DOMAIN runs : GenerateApiKey(r)
    \/ \E r \in DOMAIN runs : CreateAgent(r)
    \/ \E r \in DOMAIN runs : AddTestPrompts(r)
    \/ \E r \in DOMAIN runs : AppLoopProgress(r)
    \/ \E r \in DOMAIN runs : AppAgentResponds(r)
    \/ \E r \in DOMAIN runs : AppFinishPrompt(r)
    \/ \E r \in DOMAIN runs : AppSleep(r)
    \/ \E r \in DOMAIN runs : AppComplete(r)

SpecApp == AppInit /\ [][AppNext]_vars

\* The steps of the r-th async body of the running-evaluation effect
AppRunStep(r) ==
    /\ r \in DOMAIN runs
    /\ \/ GenerateApiKey(r)
       \/ CreateAgent(r)
       \/ AddTestPrompts(r)
       \/ AppLoopProgress(r)
       \/ AppAgentResponds(r)
       \/ AppFinishPrompt(r)
       \/ AppSleep(r)
       \/ AppComplete(r)

\* The App when React runs every pending effect and every HTTP call and timer an
\* async body awaits ends (it returns, fails or times out): each body takes its
\* next step. The effect starts at most two bodies, one per value of its
\* dependencies.
SpecAppFair ==
    /\ AppInit
    /\ [][AppNext]_vars
    /\ WF_vars(EffectRuns)
    /\ \A r \in 1..2 : WF_vars(AppRunStep(r))

\* --------------------------------------------------------------------------
\* addTestPrompts (evaluation.ts): the prompts array it posts
\* --------------------------------------------------------------------------
MaxPairs == 2

defaultPrompts ==
    << Str("What can you help me with?"),
       Str("Tell me about your capabilities"),
       Str("How do I get started?"),
       Str("What features do you support?"),
       Str("Can you explain your main functionality?") >>

\* A prompts argument is absent (Null) or an array [t: "array", a: items] whose
\* items are all strings (JStr) or all pairs
Pair(question, answer) == [t |-> "pair", question |-> question, answer |-> answer]

\* A posted prompt
Prompt(prompt, expectedAnswer) == [prompt |-> prompt, expectedAnswer |-> expectedAnswer]

\* a || b, for JSON values
JOr(a, b) == IF JTruthy(a) THEN a ELSE b

\* A condition that takes the defaults only for an absent argument
OnlyWhenAbsent(given) == given.t = "null"

\* !prompts || prompts.length === 0
NoPromptsGiven(given) == given.t = "null" \/ Len(given.a) = 0

\* addTestPrompts(agentId, prompts): the promptsArray of the request
addTestPrompts(given) ==
    IF NoPromptsGiven(given)
    THEN [k \in 1..Len(defaultPrompts) |-> Prompt(defaultPrompts[k], Null)]
    ELSE IF Len(given.a) > 0 /\ given.a[1].t = "string"
    THEN [k \in 1..Len(given.a) |-> Prompt(given.a[k].s, Null)]
    ELSE [k \in 1..Len(given.a) |->
             Prompt(given.a[k].question, JOr(given.a[k].answer, Null))]

Questions == { Str("What is the refund policy?"), Str("Who are you?"), EmptyStr }

Answers == { Null, JStr(EmptyStr), JStr(Str("30 days")) }

RECURSIVE SeqsUpTo(_, _)
\* The sequences of at most n elements of S
SeqsUpTo(S, n) ==
    IF n = 0 THEN { <<>> }
    ELSE LET shorter == SeqsUpTo(S, n - 1)
         IN  shorter \cup { Append(q, x) : q \in shorter, x \in S }

PromptArguments ==
    { Null }
    \cup { JArr(a) : a \in SeqsUpTo({ JStr(q) : q \in Questions }, MaxPairs) }
    \cup { JArr(a) : a \in SeqsUpTo({ Pair(q, ans) : q \in Questions, ans \in Answers },
                                    MaxPairs) }

PromptsInit ==
    /\ EvalIdle
    /\ JudgeIdle
    /\ AppIdle
    /\ ProbeIdle
    /\ KeyIdle
    /\ ExitIdle
    /\ FnIdle
    /\ SearchIdle
    /\ FlowIdle
    /\ atpPrompts \in PromptArguments
    /\ atpRequest = [sent |-> FALSE, prompts |-> <<>>]

\* One call of addTestPrompts, up to its request
AddTestPromptsCall ==
    /\ ~atpRequest.sent
    /\ atpRequest' = [sent |-> TRUE, prompts |-> addTestPrompts(atpPrompts)]
    /\ UNCHANGED <<atpPrompts, evalVars, judgeVars, appVars, probeVars, keyVars, exitVars, fnVars, searchVars, flowVars>>

PromptsNext == AddTestPromptsCall

SpecPrompts == PromptsInit /\ [][PromptsNext]_vars

\* --------------------------------------------------------------------------
\* The connection probe (llm.ts, testAgentConnection and
\* testAgentConnectionWithConfig) as the App's testing-connection effect calls
\* it, and the agent call of the evaluation that follows
\* --------------------------------------------------------------------------
\* responseText.substring(0, 100)
SampleLimit == 100

RECURSIVE Chars(_)
\* s.length: the characters of a token sequence
Chars(s) == IF s = EmptyStr THEN 0 ELSE Len(Head(s)) + Chars(Tail(s))

WholeText(s, n) == s

RECURSIVE Substring(_, _)
\* s.substring(0, n)
Substring(s, n) ==
    IF s = EmptyStr \/ n <= 0 THEN EmptyStr
    ELSE IF Len(Head(s)) <= n
    THEN <<Head(s)>> \o Substring(Tail(s), n - Len(Head(s)))
    ELSE <<SubSeq(Head(s), 1, n)>>

\* message.includes(word)
Includes(message, word) == \E k \in 1..Len(message) : message[k] = word

\* The userMessage of a ConnectionError (errors/types.ts)
ConnectionUserMessage(code) ==
    CASE code = "CONNECTION_REFUSED" ->
           <<"Cannot connect to agent at ", "<endpoint>",
             ". Please ensure your agent is running and accessible.">>
      [] code = "CONNECTION_TIMEOUT" ->
           Str("Connection timed out after 60 seconds. The agent might be slow to respond or unreachable.")
      [] code = "CONNECTION_NOT_FOUND" ->
           <<"Could not find the agent at ", "<endpoint>",
             ". Please check the URL and try again.">>
      [] OTHER ->
           Str("Network error occurred. Please check your internet connection and try again.")

\* transformNetworkError (errors/transform.ts): the class (name), the code, the
\* technical message, the userMessage and the isRetryable flag of the error it
\* builds
transformNetworkError(error) ==
    LET connection(code) ==
            [name |-> "ConnectionError", code |-> code,
             message |-> ConnectionMessage(code) \o Str("<endpoint>"),
             userMessage |-> ConnectionUserMessage(code),
             isRetryable |-> code \in {"CONNECTION_REFUSED", "CONNECTION_TIMEOUT",
                                       "NETWORK_ERROR"}]
        api(technical, userMessage) ==
            [name |-> "ApiError", code |-> "API_ERROR", message |-> technical,
             userMessage |-> userMessage,
             isRetryable |-> error.respStatus \in {502, 503}]
        message == IF Truthy(error.respMessage) THEN error.respMessage
                   ELSE Str("API request failed")
    IN  IF error.code = "ECONNREFUSED" THEN connection("CONNECTION_REFUSED")
        ELSE IF error.code = "ETIMEDOUT" \/ Includes(error.message, "timeout")
        THEN connection("CONNECTION_TIMEOUT")
        ELSE IF error.code \in {"ENOTFOUND", "ENOENT"} THEN connection("CONNECTION_NOT_FOUND")
        ELSE IF error.respStatus \in {401, 403}
        THEN api(Str("Authentication failed: ") \o message,
                 Str("Authentication failed. Please check your credentials."))
        ELSE IF error.respStatus >= 400 /\ error.respStatus < 500
        THEN api(Str("Client error: ") \o message, Str("Request failed: ") \o message)
        ELSE IF error.respStatus >= 500
        THEN api(Str("Server error: ") \o message,
                 Str("The server encountered an error. Please try again later."))
        ELSE connection("NETWORK_ERROR")

\* A call of transformNetworkError with any thrown value: error?.message?.includes
\* is called on whatever the message is, and only a string (or an array) has it
transformNetworkErrorOutcome(error) ==
    IF error.code \notin {"ECONNREFUSED", "ETIMEDOUT"} /\ error.messageType = "number"
    THEN Thrown(TypeError)
    ELSE Ret(transformNetworkError(error))

\* What a probe returns: success, message, and of details the fields
\* payloadFormat (0: none), sampleResponse, error ("": none), triedFormats
\* (0: none), customConfig and status (0: none)
ProbeResult(success, message) ==
    [success |-> success, message |-> message, payloadFormat |-> 0,
     sampleResponse |-> EmptyStr, error |-> "", triedFormats |-> 0,
     customConfig |-> FALSE, status |-> 0]

NoMatch == [kind |-> "none", sample |-> EmptyStr]

Match(sample) == [kind |-> "match", sample |-> sample]

\* The try block around one probe request, given the reaction to it: a match
\* with its sample, no match, or the error thrown (by the request, by the
\* extractor, or by substring on an answer that is not a string)
ProbeTry(r, responseField) ==
    IF r.net # "ok" THEN Thrown(AxiosError(r.net))
    ELSE IF r.status >= 400 THEN Ret(NoMatch)
    ELSE LET ex == IF Truthy(responseField)
                   THEN extractCustomResponseField(r.data, responseField)
                   ELSE extractResponseText(r.data)
         IN  IF ex.threw THEN Thrown(ex.e)
             ELSE IF JTruthy(ex.v) /\ ex.v # JStr(EmptyObjectText)
             THEN IF ex.v.t = "string"
                  THEN Ret(Match(Substring(ex.v.s, SampleLimit)))
                  ELSE Thrown(TypeError)
             ELSE Ret(NoMatch)

OnlyRefused(code) == code = "ECONNREFUSED"

\* The error codes on which testAgentConnection gives up
Fatal(code) == code = "ECONNREFUSED" \/ code = "ENOTFOUND"

\* The testing-connection effect of the App: which probe it calls
UsesConfigProbe(config) == config.headers \/ Truthy(config.bodyTemplate)

\* The evalConfig the App hands to runAllPromptEvaluations
evalConfig(config) ==
    [config EXCEPT !.bodyTemplate = IF Truthy(@) THEN @ ELSE DefaultTemplate]

\* The request shapes callLLMEndpoint has sent, in order, when it sent `sent`
\* requests under `config`
ShapesSent(config, sent) ==
    IF IsCustom(config) THEN <<CustomRequestShape(config)>>
    ELSE [n \in 1..sent |-> n]

\* ---- the environment of a probe
\* A text of 120 characters
LongText == << "0123456789012345678901234567890123456789012345678901234567890123456789",
               "01234567890123456789012345678901234567890123456789" >>

\* An OpenAI-style answer whose content is a list of parts
ContentParts ==
    JObj(<< <<"choices",
              JArr(<< JObj(<< <<"message",
                                JObj(<< <<"content", JArr(<<JStr(HelloText)>>)>> >>)>> >>) >>)>> >>)

ProbeBodies ==
    { JStr(HelloText), JStr(LongText), JStr(EmptyStr), JObj(<<>>), Null, ContentParts,
      JObj(<< <<"reply", JStr(HelloText)>> >>) }

ProbeRejects ==
    { [net |-> "ok", status |-> 500, data |-> Null],
      [net |-> "ok", status |-> 200, data |-> JStr(EmptyStr)],
      [net |-> "ECONNREFUSED"], [net |-> "ENOTFOUND"],
      [net |-> "ETIMEDOUT"], [net |-> "ECONNABORTED"] }

ProbeAcceptSets == { 1..NumVariants, {}, {2}, {3}, {NumVariants}, {CustomShape} }

\* `down`: the endpoint goes away during the probe, from its down-th request on
ProbeAgents ==
    { [accept |-> A, body |-> b, reject |-> r, down |-> d] :
        A \in ProbeAcceptSets, b \in ProbeBodies, r \in ProbeRejects,
        d \in {3, NumVariants + 1} }

\* The reaction of the endpoint to the probe's n-th request
ProbeReact(agent, n, shape) ==
    IF n >= agent.down THEN [net |-> "ECONNREFUSED"] ELSE React(agent, shape)

OtherTemplate == <<"{\"q\": \"", "{question}", "\"}">>

\* The customConfig state of the App: headers, bodyTemplate and responseField
\* from the command line, each possibly undefined
ProbeConfigs ==
    { [t |-> "config", headers |-> h, bodyTemplate |-> b, responseField |-> f,
       method |-> EmptyStr] :
        h \in BOOLEAN, b \in {EmptyStr, DefaultTemplate, OtherTemplate},
        f \in {EmptyStr, Str("reply")} }

ProbeInit ==
    /\ EvalIdle
    /\ JudgeIdle
    /\ AppIdle
    /\ PromptsIdle
    /\ KeyIdle
    /\ ExitIdle
    /\ FnIdle
    /\ SearchIdle
    /\ FlowIdle
    /\ probeAgent \in ProbeAgents
    /\ probeConfig \in ProbeConfigs
    /\ probePc = "probing"
    /\ probeIndex = 1
    /\ probeAttempts = <<>>
    /\ probeOutcome = Null
    /\ evalCall = NoLlmCall

\* One iteration of testAgentConnection's loop over payloadVariants.entries()
ProbeVariant ==
    /\ probePc = "probing"
    /\ ~UsesConfigProbe(probeConfig)
    /\ probeIndex <= NumVariants
    /\ LET r == ProbeReact(probeAgent, Len(probeAttempts) + 1, probeIndex)
           t == ProbeTry(r, EmptyStr)
       IN  /\ probeAttempts' = Append(probeAttempts, [shape |-> probeIndex, reaction |-> r])
           /\ IF ~t.threw /\ t.v.kind = "match"
              THEN /\ probeOutcome' =
                        [ProbeResult(TRUE, Str("Connection successful! Agent is responding."))
                           EXCEPT !.payloadFormat = probeIndex, !.sampleResponse = t.v.sample]
                   /\ probePc' = "done"
                   /\ UNCHANGED probeIndex
              ELSE IF t.threw /\ Fatal(t.e.code)
              THEN /\ probeOutcome' =
                        [ProbeResult(FALSE, transformNetworkError(t.e).userMessage)
                           EXCEPT !.error = t.e.code]
                   /\ probePc' = "done"
                   /\ UNCHANGED probeIndex
              ELSE /\ probeIndex' = probeIndex + 1
                   /\ UNCHANGED <<probeOutcome, probePc>>
    /\ UNCHANGED <<probeAgent, probeConfig, evalCall,
                   evalVars, judgeVars, appVars, promptVars, keyVars, exitVars, fnVars, searchVars, flowVars>>

\* testAgentConnection after its loop
ProbeExhausted ==
    /\ probePc = "probing"
    /\ ~UsesConfigProbe(probeConfig)
    /\ probeIndex > NumVariants
    /\ probeOutcome' =
         [ProbeResult(FALSE, Str("Could not establish a valid connection. The endpoint might not be compatible."))
            EXCEPT !.triedFormats = NumVariants]
    /\ probePc' = "done"
    /\ UNCHANGED <<probeAgent, probeConfig, probeIndex, probeAttempts, evalCall,
                   evalVars, judgeVars, appVars, promptVars, keyVars, exitVars, fnVars, searchVars, flowVars>>

\* testAgentConnectionWithConfig
ProbeWithConfig ==
    /\ probePc = "probing"
    /\ UsesConfigProbe(probeConfig)
    /\ LET shape == CustomRequestShape(probeConfig)
           r == ProbeReact(probeAgent, 1, shape)
           t == ProbeTry(r, probeConfig.responseField)
       IN  /\ probeAttempts' = <<[shape |-> shape, reaction |-> r]>>
           /\ probeOutcome' =
                IF t.threw
                THEN [ProbeResult(FALSE, transformNetworkError(t.e).userMessage)
                        EXCEPT !.error = t.e.code]
                ELSE IF t.v.kind = "match"
                THEN [ProbeResult(TRUE, Str("Connection successful with custom configuration!"))
                        EXCEPT !.customConfig = TRUE, !.sampleResponse = t.v.sample]
                ELSE [ProbeResult(FALSE, <<"Server returned ", ToString(r.status)>>)
                        EXCEPT !.status = r.status]
    /\ probePc' = "done"
    /\ UNCHANGED <<probeAgent, probeConfig, probeIndex, evalCall,
                   evalVars, judgeVars, appVars, promptVars, keyVars, exitVars, fnVars, searchVars, flowVars>>

\* The agent call of the evaluation the App runs after the probe
EvaluationCall ==
    /\ probePc = "done"
    /\ \E config \in {evalConfig(probeConfig)} :
         \E call \in {callLLMEndpoint(config, probeAgent)} :
           evalCall' = [sent |-> call.sent, shapes |-> ShapesSent(config, call.sent),
                        out |-> call.out]
    /\ probePc' = "evaluated"
    /\ UNCHANGED <<probeAgent, probeConfig, probeIndex, probeAttempts, probeOutcome,
                   evalVars, judgeVars, appVars, promptVars, keyVars, exitVars, fnVars, searchVars, flowVars>>

ProbeNext ==
    \/ ProbeVariant
    \/ ProbeExhausted
    \/ ProbeWithConfig
    \/ EvaluationCall

SpecProbe == ProbeInit /\ [][ProbeNext]_vars

\* --------------------------------------------------------------------------
\* The backend clients (evaluation.ts: client, API_KEY, setBackendUrl,
\* generateApiKey; knowledge.ts: client, API_KEY, uploadPdfToAgent,
\* getTestResults) and the backend calls of one run of the App, in its order
\* --------------------------------------------------------------------------
MaxUrlChanges == 2

DefaultBaseUrl == "https://rippletide-backend.azurewebsites.net"

BackendUrls == {DefaultBaseUrl, "http://localhost:3001"}

\* The backend calls of a run, in the order the App makes them: with a PDF the
\* uploading-pdf effect comes first and the running-evaluation effect follows
\* with the agent already created
RunCalls(source) ==
    IF source = "pdf"
    THEN << "generateApiKey", "createAgent", "uploadPdfToAgent", "generateApiKey",
            "addTestPrompts", "checkHallucination", "testResult", "getTestResults" >>
    ELSE << "generateApiKey", "createAgent", "addTestPrompts",
            "checkHallucination", "testResult", "getTestResults" >>

NextCall == 
    IF keyPc >= 1 /\ keyPc <= Len(RunCalls(keySource)) THEN RunCalls(keySource)[keyPc]
    ELSE "none"

\* The keys the backend has issued so far; the n-th key is n
KeysIssued == Cardinality({ k \in 1..Len(keyRequests) : keyRequests[k].call = "generateApiKey" })

\* A request through a module's client: the request interceptor of
\* evaluation.ts adds x-api-key when API_KEY is set
Request(call, module) == [call |-> call, baseURL |-> module.baseURL, key |-> module.API_KEY]

Sent(call, module) ==
    /\ keyRequests' = Append(keyRequests, Request(call, module))
    /\ keyPc' = keyPc + 1

KeyInit ==
    /\ EvalIdle
    /\ JudgeIdle
    /\ AppIdle
    /\ PromptsIdle
    /\ ProbeIdle
    /\ ExitIdle
    /\ FnIdle
    /\ SearchIdle
    /\ FlowIdle
    /\ keySource \in {"pdf", "files"}
    /\ keyPc = 1
    /\ evaluationTs = [API_KEY |-> 0, baseURL |-> DefaultBaseUrl]
    /\ knowledgeTs = [API_KEY |-> 0, baseURL |-> DefaultBaseUrl]
    /\ urlChanges = 0
    /\ keyRequests = <<>>

\* setBackendUrl(url): a new client and a new interceptor; API_KEY stays
setBackendUrl(url) ==
    /\ urlChanges < MaxUrlChanges
    /\ urlChanges' = urlChanges + 1
    /\ evaluationTs' = [evaluationTs EXCEPT !.baseURL = url]
    /\ UNCHANGED <<keySource, keyPc, knowledgeTs, keyRequests,
                   evalVars, judgeVars, appVars, promptVars, probeVars, exitVars, fnVars, searchVars, flowVars>>

\* generateApiKey: the request, then API_KEY = response.data.apiKey
generateApiKey ==
    /\ NextCall = "generateApiKey"
    /\ Sent("generateApiKey", evaluationTs)
    /\ evaluationTs' = [evaluationTs EXCEPT !.API_KEY = KeysIssued + 1]
    /\ UNCHANGED <<keySource, knowledgeTs, urlChanges,
                   evalVars, judgeVars, appVars, promptVars, probeVars, exitVars, fnVars, searchVars, flowVars>>

\* createAgent, addTestPrompts, checkHallucination and the result writes of
\* runPromptEvaluation: requests through the client of evaluation.ts
EvaluationTsCall(call) ==
    /\ NextCall = call
    /\ Sent(call, evaluationTs)
    /\ UNCHANGED <<keySource, evaluationTs, knowledgeTs, urlChanges,
                   evalVars, judgeVars, appVars, promptVars, probeVars, exitVars, fnVars, searchVars, flowVars>>

\* uploadPdfToAgent and getTestResults: requests through the client of
\* knowledge.ts, with the API_KEY of knowledge.ts
KnowledgeTsCall(call) ==
    /\ NextCall = call
    /\ Sent(call, knowledgeTs)
    /\ UNCHANGED <<keySource, evaluationTs, knowledgeTs, urlChanges,
                   evalVars, judgeVars, appVars, promptVars, probeVars, exitVars, fnVars, searchVars, flowVars>>

KeyNext ==
    \/ \E url \in BackendUrls : setBackendUrl(url)
    \/ generateApiKey
    \/ EvaluationTsCall("createAgent")
    \/ EvaluationTsCall("addTestPrompts")
    \/ EvaluationTsCall("checkHallucination")
    \/ EvaluationTsCall("testResult")
    \/ KnowledgeTsCall("uploadPdfToAgent")
    \/ KnowledgeTsCall("getTestResults")

SpecKey == KeyInit /\ [][KeyNext]_vars

\* --------------------------------------------------------------------------
\* The end of a run (App.tsx): the bodies of the running-evaluation effect set
\* the summary and the step 'complete'; in non-interactive mode the complete
\* effect then schedules the exit of the process
\* --------------------------------------------------------------------------
\* The summaries a body sets: the one of its catch block, and the one of a run
\* that evaluated its prompts, of which `failed` failed
ErrorSummary == [totalTests |-> 0, passed |-> 0, failed |-> 0, error |-> Str("Evaluation failed")]

RunSummary(total, failed) ==
    [totalTests |-> total, passed |-> total - failed, failed |-> failed, error |-> EmptyStr]

\* evaluationResult && !evaluationResult.error
ExitsNormally(result) == result # Null /\ ~Truthy(result.error)

ExitInit ==
    /\ EvalIdle
    /\ JudgeIdle
    /\ AppIdle
    /\ PromptsIdle
    /\ ProbeIdle
    /\ KeyIdle
    /\ FnIdle
    /\ SearchIdle
    /\ FlowIdle
    /\ \E n \in BOOLEAN, agentId \in {"", CreatedAgentId} :
         exitApp = [nonInteractive |-> n, mounted |-> TRUE, step |-> "running-evaluation",
                    currentAgentId |-> agentId, evaluationResult |-> Null]
    /\ exitBodies = <<"setup">>
    /\ exitTimers = <<>>
    /\ exitCode = NotExited

\* setEvaluationResult(result); setStep('complete'), and the complete effect
\* that runs after the render: both are without effect once the App is unmounted
Completes(result) ==
    IF exitApp.mounted
    THEN /\ exitApp' = [exitApp EXCEPT !.evaluationResult = result, !.step = "complete"]
         /\ exitTimers' = IF exitApp.nonInteractive THEN Append(exitTimers, result)
                          ELSE exitTimers
    ELSE UNCHANGED <<exitApp, exitTimers>>

\* The setup of a body (API key, agent, prompts) fails: its catch block
ExitSetupFails(r) ==
    /\ exitCode = NotExited
    /\ exitBodies[r] \in {"setup", "prompts"}
    /\ exitBodies' = [exitBodies EXCEPT ![r] = "failed"]
    /\ Completes(ErrorSummary)
    /\ UNCHANGED <<exitCode, evalVars, judgeVars, appVars, promptVars, probeVars, keyVars, fnVars, searchVars, flowVars>>

\* The API key and the agent of a body are there; when the body created the
\* agent, setCurrentAgentId changes a dependency of the running-evaluation
\* effect, which starts another body
ExitAgentReady(r) ==
    /\ exitCode = NotExited
    /\ exitBodies[r] = "setup"
    /\ IF exitApp.mounted /\ exitApp.currentAgentId = "" /\ exitApp.step = "running-evaluation"
       THEN /\ exitApp' = [exitApp EXCEPT !.currentAgentId = CreatedAgentId]
            /\ exitBodies' = Append([exitBodies EXCEPT ![r] = "prompts"], "setup")
       ELSE /\ exitBodies' = [exitBodies EXCEPT ![r] = "prompts"]
            /\ UNCHANGED exitApp
    /\ UNCHANGED <<exitTimers, exitCode, evalVars, judgeVars, appVars, promptVars, probeVars, keyVars, fnVars, searchVars, flowVars>>

\* addTestPrompts and runAllPromptEvaluations have returned
ExitRunCompletes(r) ==
    /\ exitCode = NotExited
    /\ exitBodies[r] = "prompts"
    /\ exitBodies' = [exitBodies EXCEPT ![r] = "done"]
    /\ \E total \in 0..MaxPrompts : \E failed \in 0..total :
         Completes(RunSummary(total, failed))
    /\ UNCHANGED <<exitCode, evalVars, judgeVars, appVars, promptVars, probeVars, keyVars, fnVars, searchVars, flowVars>>

\* The oldest timeout of the complete effect fires: exit() unmounts the App,
\* process.exit(1) ends the process
ExitTimerFires ==
    /\ exitCode = NotExited
    /\ exitTimers # <<>>
    /\ exitTimers' = Tail(exitTimers)
    /\ IF ExitsNormally(Head(exitTimers))
       THEN /\ exitApp' = [exitApp EXCEPT !.mounted = FALSE]
            /\ UNCHANGED exitCode
       ELSE /\ exitCode' = 1
            /\ UNCHANGED exitApp
    /\ UNCHANGED <<exitBodies, evalVars, judgeVars, appVars, promptVars, probeVars, keyVars, fnVars, searchVars, flowVars>>

\* After exit() the process ends when nothing is pending any more
ExitProcessEnds ==
    /\ exitCode = NotExited
    /\ ~exitApp.mounted
    /\ exitTimers = <<>>
    /\ \A r \in DOMAIN exitBodies : exitBodies[r] \in {"done", "failed"}
    /\ exitCode' = 0
    /\ UNCHANGED <<exitApp, exitBodies, exitTimers,
                   evalVars, judgeVars, appVars, promptVars, probeVars, keyVars, fnVars, searchVars, flowVars>>

ExitNext ==
    \/ \E r \in DOMAIN exitBodies : ExitSetupFails(r)
    \/ \E r \in DOMAIN exitBodies : ExitAgentReady(r)
    \/ \E r \in DOMAIN exitBodies : ExitRunCompletes(r)
    \/ ExitTimerFires
    \/ ExitProcessEnds

SpecExit == ExitInit /\ [][ExitNext]_vars

\* --------------------------------------------------------------------------
\* The pure functions of endpoint.ts and response.ts, called on their own.
\* Addresses and templates are strings of characters
\* --------------------------------------------------------------------------
\* s[k - 1], the k-th character of a string
Char(s, k) == SubSeq(s, k, k)

\* s.substring(k - 1)
From(s, k) == SubSeq(s, k, Len(s))

\* The white space String.prototype.trim removes (of the model's alphabet)
WhiteSpace == {" ", "\t"}

Digits == {"0", "1", "2", "3", "4", "5", "6", "7", "8", "9"}

RECURSIVE TrimStart(_)
TrimStart(s) ==
    IF Len(s) > 0 /\ Char(s, 1) \in WhiteSpace THEN TrimStart(From(s, 2)) ELSE s

RECURSIVE TrimEnd(_)
TrimEnd(s) ==
    IF Len(s) > 0 /\ Char(s, Len(s)) \in WhiteSpace
    THEN TrimEnd(SubSeq(s, 1, Len(s) - 1))
    ELSE s

\* String.prototype.trim
Trim(s) == TrimEnd(TrimStart(s))

\* s.includes(p)
IncludesText(s, p) ==
    \E k \in 1..(Len(s) - Len(p) + 1) : SubSeq(s, k, k + Len(p) - 1) = p

\* normalized.match(/^http:\/\//): the plain-http scheme alone
MatchesHttpOnly(s) == StartsWith(s, "http://")

\* normalized.match(/^https?:\/\//)
MatchesHttpScheme(s) == StartsWith(s, "http://") \/ StartsWith(s, "https://")

\* normalized.match(/:\d+/)
MatchesPort(s) ==
    \E k \in 1..(Len(s) - 1) : Char(s, k) = ":" /\ Char(s, k + 1) \in Digits

RECURSIVE DigitRun(_, _)
\* The position after the digits that start at position k
DigitRun(s, k) ==
    IF k <= Len(s) /\ Char(s, k) \in Digits THEN DigitRun(s, k + 1) ELSE k

\* The position after a match of \d+\. at position k, or 0 when there is none
NumberDot(s, k) ==
    LET e == DigitRun(s, k)
    IN  IF k > 0 /\ e > k /\ e <= Len(s) /\ Char(s, e) = "." THEN e + 1 ELSE 0

\* normalized.match(/^\d+\.\d+\.\d+\.\d+/)
MatchesIPv4(s) ==
    LET last == NumberDot(s, NumberDot(s, NumberDot(s, 1)))
    IN  last > 0 /\ DigitRun(s, last) > last

normalizeEndpoint(endpoint) ==
    LET normalized == Trim(endpoint)
    IN  IF ~MatchesHttpScheme(normalized)
        THEN IF \/ MatchesPort(normalized)
                \/ IncludesText(normalized, "localhost")
                \/ MatchesIPv4(normalized)
             THEN "http://" \o normalized
             ELSE "https://" \o normalized
        ELSE normalized

\* ---- the addresses of the model: scheme, host, port, path and trailing text
AddressSchemes == {"", "http://", "https://", "ftp://", "HTTPS://", " "}

AddressHosts ==
    {"localhost", "example.com", "192.168.1.10", "mylocalhost.dev", "10.0.0.1.nip.io", ""}

AddressPorts == {"", ":8000"}

AddressPaths == {"", "/chat", "/v1:2"}

AddressTails == {"", " "}

Addresses ==
    { scheme \o host \o port \o path \o tail :
        scheme \in AddressSchemes, host \in AddressHosts, port \in AddressPorts,
        path \in AddressPaths, tail \in AddressTails }

NormalizeCalls == { [fn |-> "normalizeEndpoint", endpoint |-> a] : a \in Addresses }

\* ---- generatePayloadVariants
\* { [key]: question }
KeyedVariant(key, question) == JObj(<< <<key, JStr(question)>> >>)

\* { messages: [{ role: 'user', content: question }] }
ChatVariant(question) ==
    JObj(<< <<"messages",
              JArr(<< JObj(<< <<"role", JStr(Str("user"))>>,
                              <<"content", JStr(question)>> >>) >>)>> >>)

\* { message, query, question, prompt }, each the question
SynonymsVariant(question) ==
    JObj(<< <<"message", JStr(question)>>, <<"query", JStr(question)>>,
            <<"question", JStr(question)>>, <<"prompt", JStr(question)>> >>)

\* The keys of the single-key bodies pushed after the synonyms body
SingleKeys ==
    << "query", "question", "prompt", "input", "text", "user_message", "data", "content" >>

MessageFirst(question) ==
    << KeyedVariant("message", question), ChatVariant(question),
       KeyedVariant("inputs", question), SynonymsVariant(question) >>
    \o [k \in 1..Len(SingleKeys) |-> KeyedVariant(SingleKeys[k], question)]
    \o << JStr(question) >>

generatePayloadVariants(question) ==
    << ChatVariant(question), KeyedVariant("message", question),
       KeyedVariant("inputs", question), SynonymsVariant(question) >>
    \o [k \in 1..Len(SingleKeys) |-> KeyedVariant(SingleKeys[k], question)]
    \o << JStr(question) >>

VariantQuestions ==
    { Str("Hello, are you there?"), Str("What is the refund policy?"), EmptyStr }

VariantCalls == { [fn |-> "generatePayloadVariants", question |-> q] : q \in VariantQuestions }

\* ---- extractResponseText, extractCustomResponseField
TextX == Str("X")

TextY == Str("Y")

Content(text) == JObj(<< <<"content", JStr(text)>> >>)

\* Decoded response bodies (response.data): every JSON kind, the conventional
\* fields, the choices and messages shapes, and entries that are no objects
DecodedBodies ==
    { JStr(TextX), JStr(EmptyStr), Null, JNum(0), JNum(42), JBool(TRUE), JBool(FALSE),
      JArr(<<>>), JArr(<< JStr(TextX) >>), JArr(<< JNum(1), JNum(2) >>),
      JObj(<<>>),
      JObj(<< <<"answer", JStr(TextX)>> >>),
      JObj(<< <<"answer", JStr(EmptyStr)>>, <<"response", JStr(TextX)>> >>),
      JObj(<< <<"message", JStr(TextY)>>, <<"answer", JStr(TextX)>> >>),
      JObj(<< <<"text", JNum(5)>>, <<"ai_response", JStr(TextX)>> >>),
      JObj(<< <<"choices", JArr(<< JObj(<< <<"message", Content(TextX)>> >>) >>)>> >>),
      JObj(<< <<"choices", JArr(<< JObj(<< <<"message", Content(TextX)>> >>) >>)>>,
              <<"reply", JStr(TextY)>> >>),
      JObj(<< <<"choices", JArr(<< JObj(<< <<"text", JStr(TextX)>> >>) >>)>> >>),
      JObj(<< <<"choices", JArr(<< JObj(<< <<"text", JStr(TextY)>>,
                                           <<"message", Content(TextX)>> >>) >>)>> >>),
      JObj(<< <<"messages", JArr(<< Content(TextX) >>)>>,
              <<"choices", JArr(<< JObj(<< <<"text", JStr(TextY)>> >>) >>)>> >>),
      JObj(<< <<"choices", JArr(<<>>)>>,
              <<"messages", JArr(<< Content(TextY), Content(TextX) >>)>> >>),
      JObj(<< <<"messages", JArr(<< Content(TextX) >>)>> >>),
      JObj(<< <<"messages", JArr(<< Content(EmptyStr) >>)>> >>),
      JObj(<< <<"foo", JStr(TextX)>> >>),
      JObj(<< <<"foo", JObj(<< <<"bar", JNum(1)>> >>)>> >>),
      JObj(<< <<"foo", JStr(TextX)>>, <<"bar", JStr(TextY)>> >>),
      JObj(<< <<"choices", Null>> >>),
      JObj(<< <<"choices", JArr(<< Null >>)>> >>),
      JObj(<< <<"choices", JArr(<< JNum(5) >>)>> >>),
      JObj(<< <<"choices", JArr(<< JStr(TextX) >>)>> >>),
      JObj(<< <<"choices", JArr(<< Null >>)>>, <<"messages", JArr(<< Content(TextX) >>)>> >>),
      JObj(<< <<"messages", JArr(<< Content(TextX), Null >>)>> >>),
      JObj(<< <<"messages", JArr(<< JStr(TextX) >>)>> >>),
      JObj(<< <<"choices", JArr(<< JObj(<< <<"message",
                 JObj(<< <<"content", JArr(<< JObj(<< <<"text", JStr(TextX)>> >>) >>)>> >>)>> >>) >>)>> >>),
      JObj(<< <<"data", JObj(<< <<"items", JArr(<< JObj(<< <<"text", JStr(Str("hi"))>> >>) >>)>> >>)>> >>),
      JObj(<< <<"data", JObj(<<>>)>> >>),
      JObj(<< <<"result", Null>> >>) }

ExtractCalls == { [fn |-> "extractResponseText", data |-> d] : d \in DecodedBodies }

\* Field paths (customConfig.responseField), as token sequences
FieldPaths ==
    { <<"data", ".", "items", "[", "0", "]", ".", "text">>,
      <<"data", ".", "items">>,
      <<"choices", "[", "0", "]", ".", "text">>,
      <<"choices", "[", "0", "]", ".", "message", ".", "content">>,
      <<"messages", "[", "1", "]">>,
      <<"result">>,
      <<"foo", ".", "bar">>,
      <<"0">> }

\* A numeric segment is applied to arrays, objects and scalars, never to a text
\* (the texts of the model have no characters to index)
CustomFieldCalls ==
    { c \in [fn : {"extractCustomResponseField"}, data : DecodedBodies,
             fieldPath : FieldPaths] :
        c.data.t = "string" => ~IsNumeric(c.fieldPath[1]) }

\* ---- buildCustomPayload
\* s.substring(k - 1).startsWith(p)
StartsAt(s, k, p) == k + Len(p) - 1 <= Len(s) /\ SubSeq(s, k, k + Len(p) - 1) = p

RECURSIVE GetSubstitution(_, _, _, _, _)
\* The text String.prototype.replace inserts for the replacement string r, read
\* from position k: $$ is a dollar sign, $& the match, $` the text before the
\* match and $' the text after it (the patterns have no group, so $1 is literal)
GetSubstitution(r, k, matched, before, after) ==
    IF k > Len(r) THEN ""
    ELSE IF StartsAt(r, k, "$$")
         THEN "$" \o GetSubstitution(r, k + 2, matched, before, after)
    ELSE IF StartsAt(r, k, "$&")
         THEN matched \o GetSubstitution(r, k + 2, matched, before, after)
    ELSE IF StartsAt(r, k, "$`")
         THEN before \o GetSubstitution(r, k + 2, matched, before, after)
    ELSE IF StartsAt(r, k, "$'")
         THEN after \o GetSubstitution(r, k + 2, matched, before, after)
    ELSE Char(r, k) \o GetSubstitution(r, k + 1, matched, before, after)

RECURSIVE ReplaceFrom(_, _, _, _)
\* s.replace(/p/g, r), from position k of s
ReplaceFrom(s, k, p, r) ==
    IF k > Len(s) THEN ""
    ELSE IF StartsAt(s, k, p)
         THEN GetSubstitution(r, 1, p, SubSeq(s, 1, k - 1), From(s, k + Len(p)))
              \o ReplaceFrom(s, k + Len(p), p, r)
    ELSE Char(s, k) \o ReplaceFrom(s, k + 1, p, r)

ReplaceAll(s, p, r) == ReplaceFrom(s, 1, p, r)

\* The three replace calls, one after the other
Substitute(template, question) ==
    ReplaceAll(ReplaceAll(ReplaceAll(template, "[eval-question]", question),
                          "{{question}}", question),
               "{question}", question)

\* JSON.parse, for texts without fractions, exponents and \u or \b escapes:
\* the outcome of reading a value is the value and the position after it
ParseFail == [ok |-> FALSE, v |-> Null, next |-> 0]

Parsed(v, next) == [ok |-> TRUE, v |-> v, next |-> next]

JsonSpace == {" ", "\t", "\n", "\r"}

RECURSIVE SkipSpace(_, _)
SkipSpace(s, k) ==
    IF k <= Len(s) /\ Char(s, k) \in JsonSpace THEN SkipSpace(s, k + 1) ELSE k

\* An object with the member key: value, a repeated key keeping its place
SetField(fields, key, value) ==
    IF \E n \in 1..Len(fields) : fields[n][1] = key
    THEN [n \in 1..Len(fields) |-> IF fields[n][1] = key THEN <<key, value>> ELSE fields[n]]
    ELSE Append(fields, <<key, value>>)

DigitValue(c) == CHOOSE n \in 0..9 : ToString(n) = c

RECURSIVE ParseDigits(_, _, _)
ParseDigits(s, k, n) ==
    IF k <= Len(s) /\ Char(s, k) \in Digits
    THEN ParseDigits(s, k + 1, 10 * n + DigitValue(Char(s, k)))
    ELSE Parsed(JNum(n), k)

\* An integer: an optional minus sign, then 0 or a digit run without leading 0
ParseNumber(s, k) ==
    LET d == IF Char(s, k) = "-" THEN k + 1 ELSE k
        run == ParseDigits(s, d, 0)
    IN  IF d > Len(s) \/ Char(s, d) \notin Digits THEN ParseFail
        ELSE IF Char(s, d) = "0" /\ run.next > d + 1 THEN ParseFail
        ELSE IF d = k THEN run
        ELSE Parsed(JNum(0 - run.v.n), run.next)

RECURSIVE ParseString(_, _, _)
\* The characters after an opening quote, up to the closing one
ParseString(s, k, text) ==
    IF k > Len(s) THEN ParseFail
    ELSE IF Char(s, k) = "\"" THEN Parsed(JStr(text), k + 1)
    ELSE IF Char(s, k) \in {"\n", "\t", "\r", "\f"} THEN ParseFail
    ELSE IF Char(s, k) = "\\"
         THEN IF k + 1 > Len(s) THEN ParseFail
              ELSE IF Char(s, k + 1) \in {"\"", "\\", "/"}
                   THEN ParseString(s, k + 2, text \o Char(s, k + 1))
              ELSE IF Char(s, k + 1) = "n" THEN ParseString(s, k + 2, text \o "\n")
              ELSE IF Char(s, k + 1) = "t" THEN ParseString(s, k + 2, text \o "\t")
              ELSE IF Char(s, k + 1) = "r" THEN ParseString(s, k + 2, text \o "\r")
              ELSE IF Char(s, k + 1) = "f" THEN ParseString(s, k + 2, text \o "\f")
              ELSE ParseFail
    ELSE ParseString(s, k + 1, text \o Char(s, k))

RECURSIVE ParseValue(_, _)
RECURSIVE ParseMembers(_, _, _)
RECURSIVE ParseItems(_, _, _)
ParseValue(s, k) ==
    LET j == SkipSpace(s, k)
    IN  IF j > Len(s) THEN ParseFail
        ELSE IF Char(s, j) = "\"" THEN ParseString(s, j + 1, "")
        ELSE IF Char(s, j) = "{"
             THEN IF StartsAt(s, SkipSpace(s, j + 1), "}")
                  THEN Parsed(JObj(<<>>), SkipSpace(s, j + 1) + 1)
                  ELSE ParseMembers(s, j + 1, <<>>)
        ELSE IF Char(s, j) = "["
             THEN IF StartsAt(s, SkipSpace(s, j + 1), "]")
                  THEN Parsed(JArr(<<>>), SkipSpace(s, j + 1) + 1)
                  ELSE ParseItems(s, j + 1, <<>>)
        ELSE IF StartsAt(s, j, "true") THEN Parsed(JBool(TRUE), j + 4)
        ELSE IF StartsAt(s, j, "false") THEN Parsed(JBool(FALSE), j + 5)
        ELSE IF StartsAt(s, j, "null") THEN Parsed(Null, j + 4)
        ELSE IF Char(s, j) \in Digits \cup {"-"} THEN ParseNumber(s, j)
        ELSE ParseFail

\* The members of an object from position k, `fields` read so far
ParseMembers(s, k, fields) ==
    LET j == SkipSpace(s, k)
        key == ParseString(s, j + 1, "")
        colon == SkipSpace(s, key.next)
        value == ParseValue(s, colon + 1)
        end == SkipSpace(s, value.next)
    IN  IF ~StartsAt(s, j, "\"") \/ ~key.ok THEN ParseFail
        ELSE IF ~StartsAt(s, colon, ":") \/ ~value.ok THEN ParseFail
        ELSE IF StartsAt(s, end, "}")
             THEN Parsed(JObj(SetField(fields, key.v.s, value.v)), end + 1)
        ELSE IF StartsAt(s, end, ",")
             THEN ParseMembers(s, end + 1, SetField(fields, key.v.s, value.v))
        ELSE ParseFail

\* The items of an array from position k, `items` read so far
ParseItems(s, k, items) ==
    LET value == ParseValue(s, k)
        end == SkipSpace(s, value.next)
    IN  IF ~value.ok THEN ParseFail
        ELSE IF StartsAt(s, end, "]") THEN Parsed(JArr(Append(items, value.v)), end + 1)
        ELSE IF StartsAt(s, end, ",") THEN ParseItems(s, end + 1, Append(items, value.v))
        ELSE ParseFail

\* JSON.parse(text): the value, or a failure for a SyntaxError
JsonParse(text) ==
    LET value == ParseValue(text, 1)
    IN  IF value.ok /\ SkipSpace(text, value.next) > Len(text) THEN value ELSE ParseFail

buildCustomPayload(template, question) ==
    LET replaced == Substitute(template, question)
    IN  IF JsonParse(replaced).ok
        THEN Ret(JsonParse(replaced).v)
        ELSE Ret(JStr(Substitute(template, question)))

BodyTemplates ==
    { "{\"message\": \"[eval-question]\"}",
      "{\"q\":\"{{question}}\",\"p\":\"{question}\"}",
      "{\"messages\":[{\"role\":\"user\",\"content\":\"{question}\"}],\"n\":1}",
      "Q: {question} [eval-question]",
      "{{question}}",
      "{\"text\": \"none\"}" }

BuildQuestions ==
    { "Hello, are you there?", "Say \"hi\"", "42", "", "Is $$5 ok?", "R&D $& cost?",
      "Why {question}?" }

BuildCalls ==
    { [fn |-> "buildCustomPayload", template |-> t, question |-> q] :
        t \in BodyTemplates, q \in BuildQuestions }

\* ---- the method of the single request of a custom configuration
UpperCaseLetters == "ABCDEFGHIJKLMNOPQRSTUVWXYZ"

LowerCaseLetters == "abcdefghijklmnopqrstuvwxyz"

LowerChar(c) ==
    IF \E k \in 1..Len(UpperCaseLetters) : Char(UpperCaseLetters, k) = c
    THEN Char(LowerCaseLetters, CHOOSE k \in 1..Len(UpperCaseLetters) :
                                  Char(UpperCaseLetters, k) = c)
    ELSE c

RECURSIVE toLowerCase(_)
\* String.prototype.toLowerCase
toLowerCase(s) == IF s = "" THEN "" ELSE LowerChar(Char(s, 1)) \o toLowerCase(From(s, 2))

\* const method = config.method?.toLowerCase() || 'post';
\* method === 'get' ? client.get(endpoint) : client.post(endpoint, payload):
\* the method of the request that goes out ("": config.method is not set)
RequestMethod(configured) ==
    LET method == IF configured = "" \/ toLowerCase(configured) = "" THEN "post"
                  ELSE toLowerCase(configured)
    IN  IF method = "get" THEN "get" ELSE "post"

ConfiguredMethods == {"", "GET", "get", "Get", "POST", "post", "PUT", "PATCH", "DELETE"}

MethodCalls ==
    { [fn |-> f, method |-> m] :
        f \in {"callLLMEndpoint", "testAgentConnectionWithConfig"},
        m \in ConfiguredMethods }

\* ---- transformNetworkError
\* Thrown values: code ("none": no code), message and its type ("undefined": no
\* message; a null or undefined thrown value reads like one with no field at
\* all), error.response.status (0: no response) and error.response.data.message
ThrownValues ==
    { e \in [code : {"none", "ECONNREFUSED", "ETIMEDOUT", "ENOTFOUND", "ENOENT",
                     "ECONNABORTED"},
             message : {EmptyStr, Str("socket hang up"),
                        <<"timeout", " of ", "<ms>", "ms exceeded">>},
             messageType : {"string", "number", "undefined"},
             respMessage : {EmptyStr, Str("quota exceeded")},
             respStatus : {0, 200, 304, 401, 404, 500, 502, 503}] :
        /\ e.messageType # "string" => e.message = EmptyStr
        /\ e.respStatus = 0 => e.respMessage = EmptyStr }

TransformCalls == { [fn |-> "transformNetworkError", error |-> e] : e \in ThrownValues }

FnCalls ==
    NormalizeCalls \cup VariantCalls \cup ExtractCalls \cup CustomFieldCalls \cup BuildCalls
    \cup MethodCalls \cup TransformCalls

FnInit ==
    /\ EvalIdle
    /\ JudgeIdle
    /\ AppIdle
    /\ PromptsIdle
    /\ ProbeIdle
    /\ KeyIdle
    /\ ExitIdle
    /\ SearchIdle
    /\ FlowIdle
    /\ fnCall \in FnCalls
    /\ fnReturns = <<>>

\* normalizeEndpoint, called on the address and then on its own result
NormalizeEndpointCall ==
    /\ fnCall.fn = "normalizeEndpoint"
    /\ Len(fnReturns) < 2
    /\ fnReturns' = Append(fnReturns,
                           normalizeEndpoint(IF fnReturns = <<>> THEN fnCall.endpoint
                                             ELSE fnReturns[1]))
    /\ UNCHANGED <<fnCall, evalVars, judgeVars, appVars, promptVars, probeVars,
                   keyVars, exitVars, searchVars, flowVars>>

\* generatePayloadVariants, called twice with the same question
GeneratePayloadVariantsCall ==
    /\ fnCall.fn = "generatePayloadVariants"
    /\ Len(fnReturns) < 2
    /\ fnReturns' = Append(fnReturns, generatePayloadVariants(fnCall.question))
    /\ UNCHANGED <<fnCall, evalVars, judgeVars, appVars, promptVars, probeVars,
                   keyVars, exitVars, searchVars, flowVars>>

\* extractResponseText(response.data)
ExtractResponseTextCall ==
    /\ fnCall.fn = "extractResponseText"
    /\ fnReturns = <<>>
    /\ fnReturns' = << extractResponseText(fnCall.data) >>
    /\ UNCHANGED <<fnCall, evalVars, judgeVars, appVars, promptVars, probeVars,
                   keyVars, exitVars, searchVars, flowVars>>

\* extractCustomResponseField(response.data, customConfig.responseField)
ExtractCustomResponseFieldCall ==
    /\ fnCall.fn = "extractCustomResponseField"
    /\ fnReturns = <<>>
    /\ fnReturns' = << extractCustomResponseField(fnCall.data, fnCall.fieldPath) >>
    /\ UNCHANGED <<fnCall, evalVars, judgeVars, appVars, promptVars, probeVars,
                   keyVars, exitVars, searchVars, flowVars>>

\* buildCustomPayload(customConfig.bodyTemplate, question)
BuildCustomPayloadCall ==
    /\ fnCall.fn = "buildCustomPayload"
    /\ fnReturns = <<>>
    /\ fnReturns' = << buildCustomPayload(fnCall.template, fnCall.question) >>
    /\ UNCHANGED <<fnCall, evalVars, judgeVars, appVars, promptVars, probeVars,
                   keyVars, exitVars, searchVars, flowVars>>

\* The single request of callLLMEndpoint or testAgentConnectionWithConfig under
\* a custom configuration: the method it is sent with
CustomRequestCall ==
    /\ fnCall.fn \in {"callLLMEndpoint", "testAgentConnectionWithConfig"}
    /\ fnReturns = <<>>
    /\ fnReturns' = << RequestMethod(fnCall.method) >>
    /\ UNCHANGED <<fnCall, evalVars, judgeVars, appVars, promptVars, probeVars,
                   keyVars, exitVars, searchVars, flowVars>>

\* transformNetworkError(error, endpoint)
TransformNetworkErrorCall ==
    /\ fnCall.fn = "transformNetworkError"
    /\ fnReturns = <<>>
    /\ fnReturns' = << transformNetworkErrorOutcome(fnCall.error) >>
    /\ UNCHANGED <<fnCall, evalVars, judgeVars, appVars, promptVars, probeVars,
                   keyVars, exitVars, searchVars, flowVars>>

FnNext ==
    \/ NormalizeEndpointCall
    \/ GeneratePayloadVariantsCall
    \/ ExtractResponseTextCall
    \/ ExtractCustomResponseFieldCall
    \/ BuildCustomPayloadCall
    \/ CustomRequestCall
    \/ TransformNetworkErrorCall

SpecFunctions == FnInit /\ [][FnNext]_vars

\* --------------------------------------------------------------------------
\* callLLMEndpoint without custom configuration (llm.ts), variant by variant:
\* the endpoint may react to every request in a way of its own
\* --------------------------------------------------------------------------
\* What one request may meet: an answer, an HTTP error status, a network failure
SearchReactions ==
    { [net |-> "ok", status |-> 200, data |-> b] : b \in AgentBodies }
    \cup { [net |-> "ok", status |-> 404, data |-> Null],
           [net |-> "ok", status |-> 500, data |-> Null],
           [net |-> "ECONNREFUSED"], [net |-> "ENOTFOUND"], [net |-> "ETIMEDOUT"] }

\* The error of a variant whose error is already known is kept
KeepFirstError(lastError, r) ==
    IF lastError # NoError THEN lastError
    ELSE IF r.net # "ok" THEN AxiosError(r.net)
    ELSE Error("none", <<"HTTP ", ToString(r.status)>>)

\* lastError = error (catch), lastError = new Error(`HTTP ${response.status}: ...`)
FailureOf(lastError, r) ==
    IF r.net # "ok" THEN AxiosError(r.net)
    ELSE Error("none", <<"HTTP ", ToString(r.status)>>)

\* The catch block of callLLMEndpoint: three codes are wrapped, the rest rethrown
Rethrown(error) ==
    CASE error.code = "ECONNREFUSED" -> ConnectionError("CONNECTION_REFUSED")
      [] error.code = "ETIMEDOUT" -> ConnectionError("CONNECTION_TIMEOUT")
      [] error.code = "ENOTFOUND" -> ConnectionError("CONNECTION_NOT_FOUND")
      [] OTHER -> error

\* After the loop: throw, or extract the text of the response (and call
\* substring on it), all inside the try block
SearchTry(response, lastError) ==
    IF response.net = "none" \/ response.status >= 400
    THEN IF lastError # NoError THEN Thrown(lastError)
         ELSE Thrown(Error("none", Str("LLM endpoint returned error")))
    ELSE LET ex == extractResponseText(response.data)
         IN  IF ex.threw THEN Thrown(ex.e)
             ELSE IF ex.v.t # "string" THEN Thrown(TypeError)
             ELSE Ret(ex.v.s)

SearchInit ==
    /\ EvalIdle
    /\ JudgeIdle
    /\ AppIdle
    /\ PromptsIdle
    /\ ProbeIdle
    /\ KeyIdle
    /\ ExitIdle
    /\ FnIdle
    /\ FlowIdle
    /\ searchPc = "loop"
    /\ searchResponse = NoResponse
    /\ searchLastError = NoError
    /\ searchSent = <<>>
    /\ searchLast = NoResponse
    /\ searchOut = Null

\* One iteration of the loop over payloadVariants.entries()
SearchVariant ==
    /\ searchPc = "loop"
    /\ Len(searchSent) < NumVariants
    /\ \E r \in SearchReactions :
         /\ searchSent' = Append(searchSent, Len(searchSent) + 1)
         /\ searchLast' = r
         /\ IF r.net # "ok"
            THEN /\ searchLastError' = FailureOf(searchLastError, r)
                 /\ UNCHANGED <<searchResponse, searchPc>>
            ELSE IF r.status < 400
            THEN /\ searchResponse' = r
                 /\ searchPc' = "after"
                 /\ UNCHANGED searchLastError
            ELSE /\ searchResponse' = r
                 /\ searchLastError' = FailureOf(searchLastError, r)
                 /\ UNCHANGED searchPc
    /\ UNCHANGED <<searchOut, evalVars, judgeVars, appVars, promptVars, probeVars,
                   keyVars, exitVars, fnVars, flowVars>>

\* The loop ends with the last variant
SearchExhausted ==
    /\ searchPc = "loop"
    /\ Len(searchSent) >= NumVariants
    /\ searchPc' = "after"
    /\ UNCHANGED <<searchResponse, searchLastError, searchSent, searchLast, searchOut,
                   evalVars, judgeVars, appVars, promptVars, probeVars,
                   keyVars, exitVars, fnVars, flowVars>>

\* The rest of the try block, and the catch block
SearchReturns ==
    /\ searchPc = "after"
    /\ \E t \in {SearchTry(searchResponse, searchLastError)} :
         searchOut' = IF t.threw THEN Thrown(Rethrown(t.e)) ELSE t
    /\ searchPc' = "done"
    /\ UNCHANGED <<searchResponse, searchLastError, searchSent, searchLast,
                   evalVars, judgeVars, appVars, promptVars, probeVars,
                   keyVars, exitVars, fnVars, flowVars>>

SearchNext ==
    \/ SearchVariant
    \/ SearchExhausted
    \/ SearchReturns

SpecSearch == SearchInit /\ [][SearchNext]_vars

\* --------------------------------------------------------------------------
\* The App (App.tsx) from its mount to 'running-evaluation': the connection
\* test, the connection-failed menu, the custom configuration screens, the
\* knowledge check and the choice of the knowledge source
\* --------------------------------------------------------------------------
\* The values of knowledgeSource ("": none given)
KnowledgeSources == {"", "files", "pinecone", "postgresql", "pdf"}

\* The enabled options of the select-source menu
SelectableSources == {"files", "pdf", "pinecone", "postgresql"}

\* The sources whose pairs are fetched before the evaluation
FetchedSources == {"pinecone", "postgresql", "pdf"}

\* The step whose effect fetches the pairs of a source
FetchStep(source) ==
    CASE source = "pinecone" -> "fetching-pinecone"
      [] source = "postgresql" -> "fetching-postgresql"
      [] source = "pdf" -> "uploading-pdf"

\* The steps whose effect starts an async body
EffectSteps ==
    {"testing-connection", "checking-knowledge", "fetching-pinecone",
     "fetching-postgresql", "uploading-pdf"}

\* seq without its k-th element
WithoutAt(seq, k) == SubSeq(seq, 1, k - 1) \o SubSeq(seq, k + 1, Len(seq))

\* A connection test after which the App always goes on
AlwaysProceeds(success, nonInteractive) == "checking-knowledge"

\* The step the timeout of the testing-connection effect sets, for a test that
\* succeeded or not (a test that threw counts as failed)
AfterTest(success, nonInteractive) ==
    IF success THEN "checking-knowledge"
    ELSE IF nonInteractive THEN "checking-knowledge"
    ELSE "connection-failed"

\* The state updates of a handler or async body are rendered, and the effects
\* of that render run: an effect whose step was entered starts its async body.
\* bodies: the async bodies still in flight
Rendered(app, bodies) ==
    /\ flowApp' = app
    /\ flowPrev' = IF app.step # flowApp.step THEN flowApp.step ELSE flowPrev
    /\ flowBodies' = IF app.step # flowApp.step /\ app.step \in EffectSteps
                     THEN Append(bodies, app.step)
                     ELSE bodies

\* const initialStep = nonInteractive && initialAgentEndpoint ? ... ; the first
\* render runs the effects
FlowInit ==
    /\ EvalIdle
    /\ JudgeIdle
    /\ AppIdle
    /\ PromptsIdle
    /\ ProbeIdle
    /\ KeyIdle
    /\ ExitIdle
    /\ FnIdle
    /\ SearchIdle
    /\ \E n \in BOOLEAN, endpoint \in BOOLEAN, source \in KnowledgeSources,
          settings \in BOOLEAN :
         LET initialStep == IF n /\ endpoint THEN "testing-connection"
                            ELSE "agent-endpoint"
         IN  /\ flowApp = [nonInteractive |-> n, step |-> initialStep,
                           knowledgeSource |-> source, settings |-> settings,
                           exited |-> FALSE]
             /\ flowBodies = IF initialStep \in EffectSteps THEN <<initialStep>> ELSE <<>>
    /\ flowTimers = <<>>
    /\ flowTest = "none"
    /\ flowContinued = FALSE
    /\ flowPrev = ""

\* handleAgentEndpointSubmit(value): an endpoint that is empty once trimmed is
\* ignored
SubmitEndpoint ==
    /\ ~flowApp.exited
    /\ flowApp.step = "agent-endpoint"
    /\ \E empty \in BOOLEAN :
         IF empty
         THEN UNCHANGED <<flowApp, flowPrev, flowBodies>>
         ELSE Rendered([flowApp EXCEPT !.step = "testing-connection"], flowBodies)
    /\ UNCHANGED <<flowTimers, flowTest, flowContinued, evalVars, judgeVars, appVars, promptVars, probeVars,
                   keyVars, exitVars, fnVars, searchVars>>

\* The async body of the testing-connection effect: the test returns a result
\* or throws, the result is stored and the timeout is set
ConnectionTested(k) ==
    /\ ~flowApp.exited
    /\ flowBodies[k] = "testing-connection"
    /\ \E outcome \in {"success", "failed", "thrown"} :
         /\ flowTest' = IF outcome = "success" THEN "success" ELSE "failed"
         /\ flowTimers' = Append(flowTimers,
                                 AfterTest(outcome = "success", flowApp.nonInteractive))
    /\ flowContinued' = FALSE
    /\ flowBodies' = WithoutAt(flowBodies, k)
    /\ UNCHANGED <<flowApp, flowPrev, evalVars, judgeVars, appVars, promptVars, probeVars,
                   keyVars, exitVars, fnVars, searchVars>>

\* A timeout of the testing-connection effect fires: setStep(...)
FlowTimerFires(k) ==
    /\ ~flowApp.exited
    /\ Rendered([flowApp EXCEPT !.step = flowTimers[k]], flowBodies)
    /\ flowTimers' = WithoutAt(flowTimers, k)
    /\ UNCHANGED <<flowTest, flowContinued, evalVars, judgeVars, appVars, promptVars, probeVars,
                   keyVars, exitVars, fnVars, searchVars>>

\* onSelect of the connection-failed menu
ConnectionFailedMenu ==
    /\ ~flowApp.exited
    /\ flowApp.step = "connection-failed"
    /\ \E value \in {"retry", "change", "custom", "continue"} :
         /\ Rendered([flowApp EXCEPT !.step =
                          CASE value = "retry" -> "testing-connection"
                            [] value = "change" -> "agent-endpoint"
                            [] value = "custom" -> "custom-config"
                            [] value = "continue" -> "checking-knowledge"],
                     flowBodies)
         /\ flowContinued' = (value = "continue")
    /\ UNCHANGED <<flowTimers, flowTest, evalVars, judgeVars, appVars, promptVars, probeVars,
                   keyVars, exitVars, fnVars, searchVars>>

\* onSelect of the custom-config menu
CustomConfigMenu ==
    /\ ~flowApp.exited
    /\ flowApp.step = "custom-config"
    /\ \E value \in {"headers", "body", "response", "test", "back"} :
         Rendered([flowApp EXCEPT !.step =
                       CASE value = "headers" -> "custom-headers"
                         [] value = "body" -> "custom-body"
                         [] value = "response" -> "custom-response"
                         [] value = "test" -> "testing-connection"
                         [] value = "back" -> "connection-failed"],
                  flowBodies)
    /\ UNCHANGED <<flowTimers, flowTest, flowContinued, evalVars, judgeVars, appVars, promptVars, probeVars,
                   keyVars, exitVars, fnVars, searchVars>>

\* onSubmit of the custom-headers, custom-body and custom-response inputs
CustomValueSubmit ==
    /\ ~flowApp.exited
    /\ flowApp.step \in {"custom-headers", "custom-body", "custom-response"}
    /\ Rendered([flowApp EXCEPT !.step = "custom-config"], flowBodies)
    /\ UNCHANGED <<flowTimers, flowTest, flowContinued, evalVars, judgeVars, appVars, promptVars, probeVars,
                   keyVars, exitVars, fnVars, searchVars>>

\* The async body of the checking-knowledge effect, after checkKnowledge has
\* returned or thrown (setKnowledgeSource and setStep are rendered together)
KnowledgeChecked(k) ==
    /\ ~flowApp.exited
    /\ flowBodies[k] = "checking-knowledge"
    /\ LET rest == WithoutAt(flowBodies, k)
           source == flowApp.knowledgeSource
       IN  IF flowApp.nonInteractive /\ source # ""
           THEN IF source \in FetchedSources
                THEN IF flowApp.settings
                     THEN Rendered([flowApp EXCEPT !.step = FetchStep(source)], rest)
                     ELSE Rendered([flowApp EXCEPT !.exited = TRUE], rest)
                ELSE Rendered([flowApp EXCEPT !.step = "running-evaluation"], rest)
           ELSE IF flowApp.nonInteractive
           THEN Rendered([flowApp EXCEPT !.knowledgeSource = "files",
                                         !.step = "running-evaluation"], rest)
           ELSE Rendered([flowApp EXCEPT !.step = "select-source"], rest)
    /\ UNCHANGED <<flowTimers, flowTest, flowContinued, evalVars, judgeVars, appVars, promptVars, probeVars,
                   keyVars, exitVars, fnVars, searchVars>>

\* handleSourceSelect(value)
SourceSelected ==
    /\ ~flowApp.exited
    /\ flowApp.step = "select-source"
    /\ \E value \in SelectableSources :
         Rendered([flowApp EXCEPT !.knowledgeSource = value,
                                  !.step = CASE value = "pinecone" -> "pinecone-url"
                                             [] value = "postgresql" -> "postgresql-config"
                                             [] value = "pdf" -> "pdf-path-input"
                                             [] OTHER -> "running-evaluation"],
                  flowBodies)
    /\ UNCHANGED <<flowTimers, flowTest, flowContinued, evalVars, judgeVars, appVars, promptVars, probeVars,
                   keyVars, exitVars, fnVars, searchVars>>

\* handlePineconeUrlSubmit, handlePineconeApiKeySubmit,
\* handlePostgresqlConnectionSubmit, handlePdfPathSubmit
SourceInputSubmit ==
    /\ ~flowApp.exited
    /\ flowApp.step \in {"pinecone-url", "pinecone-api-key", "postgresql-config",
                         "pdf-path-input"}
    /\ Rendered([flowApp EXCEPT !.step =
                     CASE flowApp.step = "pinecone-url" -> "pinecone-api-key"
                       [] flowApp.step = "pinecone-api-key" -> "fetching-pinecone"
                       [] flowApp.step = "postgresql-config" -> "fetching-postgresql"
                       [] flowApp.step = "pdf-path-input" -> "uploading-pdf"],
                flowBodies)
    /\ UNCHANGED <<flowTimers, flowTest, flowContinued, evalVars, judgeVars, appVars, promptVars, probeVars,
                   keyVars, exitVars, fnVars, searchVars>>

\* The async body of the fetching-pinecone, fetching-postgresql or uploading-pdf
\* effect ends: the pairs are there, or the failure is shown as the result
FetchEnds(k) ==
    /\ ~flowApp.exited
    /\ flowBodies[k] \in {"fetching-pinecone", "fetching-postgresql", "uploading-pdf"}
    /\ \E fetched \in BOOLEAN :
         Rendered([flowApp EXCEPT !.step = IF fetched THEN "running-evaluation"
                                           ELSE "complete"],
                  WithoutAt(flowBodies, k))
    /\ UNCHANGED <<flowTimers, flowTest, flowContinued, evalVars, judgeVars, appVars, promptVars, probeVars,
                   keyVars, exitVars, fnVars, searchVars>>

FlowNext ==
    \/ SubmitEndpoint
    \/ \E k \in DOMAIN flowBodies : ConnectionTested(k)
    \/ \E k \in DOMAIN flowTimers : FlowTimerFires(k)
    \/ ConnectionFailedMenu
    \/ CustomConfigMenu
    \/ CustomValueSubmit
    \/ \E k \in DOMAIN flowBodies : KnowledgeChecked(k)
    \/ SourceSelected
    \/ SourceInputSubmit
    \/ \E k \in DOMAIN flowBodies : FetchEnds(k)

SpecFlow == FlowInit /\ [][FlowNext]_vars

\* --------------------------------------------------------------------------
\* Properties of runAllPromptEvaluations and runPromptEvaluation (SpecEval)
\* --------------------------------------------------------------------------
Done == pc \in {"returned", "summarised"}

\* The evaluation recorded in lastCalls returned a result, which is results[p]
LastReturned ==
    /\ lastCalls.prompt # 0
    /\ ~lastCalls.threw
    /\ lastCalls.prompt <= Len(results)

LastResult == results[lastCalls.prompt]

\* A result write of the try block (full or minimal payload) succeeded
JudgedWriteStored ==
    \E k \in 1..Len(lastCalls.writes) :
        lastCalls.writes[k].kind \in {"full", "minimal"} /\ lastCalls.writes[k].ok

\* The full write and the minimal retry both failed
BothWritesFailed ==
    /\ Len(lastCalls.writes) >= 2
    /\ lastCalls.writes[1].kind = "full" /\ ~lastCalls.writes[1].ok
    /\ lastCalls.writes[2].kind = "minimal" /\ ~lastCalls.writes[2].ok

PassedIndexes == { k \in 1..Len(results) : results[k].hallucinationResult.status = Str("passed") }

\* C1: whatever the agent call, the judge call and the result writes of each prompt
\* do (no progress callback throwing), runAllPromptEvaluations returns exactly one
\* result per prompt, in prompt order: result k carries the question of prompt k;
\* while the loop runs, the results are those of the prompts evaluated so far.
C1_OneResultPerPromptInOrder ==
    ~cbThrew =>
        /\ Len(results) = (IF pc = "sleep" THEN i + 1 ELSE i)
        /\ Done => Len(results) = Len(prompts)
        /\ \A k \in 1..Len(results) :
               k <= Len(prompts) /\ results[k].question = prompts[k].prompt

C1_Witness ==
    /\ pc = "returned" /\ ~cbThrew
    /\ Len(prompts) = 2 /\ Len(results) = 2
    /\ ~results[1].success /\ results[1].error # EmptyStr
    /\ results[2].success
    /\ \A k \in 1..Len(lastCalls.writes) : ~lastCalls.writes[k].ok

\* C2 (as claimed): every summary satisfies passed + failed = totalTests, for
\* every number of created prompts, zero included (no callback throwing).
C2_SummaryBalanced ==
    (pc = "summarised" /\ ~cbThrew) =>
        summary.passed + summary.failed = summary.totalTests

\* C5 (as claimed): an error raised while a prompt is evaluated, an exception of
\* the progress callback included, never makes the loop return fewer results than
\* there are prompts.
C5_ErrorsContained == Done => Len(results) = Len(prompts)

\* C6: when the agent call of a prompt throws (refused, not found, timed out, every
\* variant rejected, status >= 400 with a custom configuration) and no progress
\* callback throws, the prompt's result
\* has success = false and the response text 'Error calling LLM endpoint: <message>',
\* it is counted in failed, and the loop goes on to the next prompt.
C6_AgentFailureSynthesized ==
    (lastCalls.prompt # 0 /\ lastCalls.llm.threw /\ ~cbThrew) =>
        /\ LastReturned
        /\ ~LastResult.success
        /\ LastResult.llmResponse = ErrorPrefix \o lastCalls.llm.e.message
        /\ CountSuccess(results, FALSE) >= 1
        /\ pc = "returned" => lastCalls.prompt = Len(prompts)

C6_Witness ==
    /\ pc = "agent" /\ i = 1 /\ ~cbThrew
    /\ lastCalls.prompt = 1
    /\ lastCalls.llm.threw
    /\ lastCalls.llm.e.code = "ECONNABORTED"
    /\ customConfig.t = "null"
    /\ lastCalls.agentRequests = NumVariants

\* C7: when the agent call and a result write succeed, the prompt is passed iff the
\* verdict status is exactly 'passed' ('failed' and 'ambiguous' are failed); so when
\* every result is a judged one, passed is the number of 'passed' verdicts and
\* failed the number of the others.
C7_PassedIffVerdictPassed ==
    /\ (LastReturned /\ lastCalls.judged.called /\ JudgedWriteStored) =>
           (LastResult.success <=> lastCalls.judged.v.status = Str("passed"))
    /\ (Done /\ ~cbThrew
          /\ \A k \in 1..Len(results) :
                 results[k].hallucinationResult.hallucinationLabel
                     \in {Str("FactIsPresent"), Str("Hallucination")}) =>
           /\ CountSuccess(results, TRUE) = Cardinality(PassedIndexes)
           /\ CountSuccess(results, FALSE) = Len(prompts) - Cardinality(PassedIndexes)

C7_Witness ==
    /\ pc = "returned" /\ Len(results) = 2
    /\ results[1].hallucinationResult.status = Str("passed")
    /\ results[1].hallucinationResult.hallucinationLabel = Str("FactIsPresent")
    /\ results[2].hallucinationResult.status = Str("ambiguous")
    /\ lastCalls.judged.called /\ JudgedWriteStored
    /\ ~results[2].success

\* C8 (as claimed): the success flag follows the judge's verdict whether or not
\* the result writes succeed.
C8_WritesNeverChangeSuccess ==
    (LastReturned /\ lastCalls.judged.called) =>
        (LastResult.success <=> lastCalls.judged.v.status = Str("passed"))

\* C9: if the agent call returned a non-empty response and a later step of the
\* prompt throws (the callback given the response, or the result storage: the full
\* write and the minimal retry both fail), the result has success = true and the
\* synthesized 'passed' verdict, and the prompt is counted as passed.
C9_LenientPass ==
    (lastCalls.prompt # 0 /\ ~lastCalls.llm.threw /\ Truthy(lastCalls.llm.v)
       /\ (lastCalls.cb \/ BothWritesFailed)) =>
        /\ LastReturned
        /\ LastResult.success
        /\ LastResult.hallucinationResult = LenientVerdict
        /\ LastResult.llmResponse = lastCalls.llm.v
        /\ CountSuccess(results, TRUE) >= 1

C9_Witness ==
    /\ LastReturned
    /\ lastCalls.judged.called
    /\ lastCalls.judged.v.status = Str("failed")
    /\ BothWritesFailed
    /\ Len(lastCalls.writes) = 3 /\ lastCalls.writes[3].kind = "lenient"
    /\ LastResult.success

\* C11 (as claimed): for a judged prompt the full payload is written first; a
\* second write is made only if the first failed, it is the minimal payload and
\* carries neither the hallucination label nor the findings; no third write is made.
C11_TwoTierWrite ==
    (lastCalls.prompt # 0 /\ lastCalls.judged.called) =>
        LET ws == lastCalls.writes
        IN  /\ Len(ws) \in 1..2
            /\ ws[1].kind = "full"
            /\ Len(ws) = 2 =>
                   /\ ~ws[1].ok
                   /\ ws[2].kind = "minimal"
                   /\ ~ws[2].hasLabel
                   /\ ~ws[2].hasFindings

\* --------------------------------------------------------------------------
\* Properties of checkHallucination (SpecJudge)
\* --------------------------------------------------------------------------
\* The judge gave no verdict: the request failed, the status is not 2xx, or the
\* reply carries no data or no status
NoVerdictFromJudge ==
    /\ hcOutcome.requests = 1
    /\ \/ hcJudge.net # "ok"
       \/ hcJudge.status < 200 \/ hcJudge.status >= 300
       \/ hcJudge.data.t = "null"
       \/ ~Truthy(hcJudge.data.status)

\* C10: checkHallucination never throws, and when the judge gives no verdict (a
\* 404, any other error of the judge call, a reply without a status) the verdict
\* it returns has status 'passed'.
C10_JudgeFailsOpen ==
    hcCalls > 0 =>
        /\ ~hcOutcome.threw
        /\ NoVerdictFromJudge => hcOutcome.v.status = Str("passed")

C10_Witness ==
    /\ hcCalls = 2
    /\ hcResponse = HelloText
    /\ hcJudge.net = "ok" /\ hcJudge.status = 503
    /\ ~hcOutcome.threw
    /\ hcOutcome.v.status = Str("passed")

\* --------------------------------------------------------------------------
\* Properties of the App's running-evaluation step (SpecApp)
\* --------------------------------------------------------------------------
\* The async bodies whose agent request is in flight
AgentRequestsInFlight == { r \in DOMAIN runs : runs[r].at = "agent" }

\* C3 (as claimed): in every reachable state of the App at most one request to the
\* agent endpoint is in flight.
C3_AgentRequestsSequential == Cardinality(AgentRequestsInFlight) <= 1

\* C4 (as claimed): after the App enters running-evaluation the API key is
\* generated once, at most one agent is created and prompts are attached once.
C4_OnePipelinePerRun ==
    /\ backend.generateApiKey <= 1
    /\ backend.createAgent <= 1
    /\ backend.addTestPrompts <= 1

\* Some async body of the effect ended in the catch block
SetupFailed == \E r \in DOMAIN runs : runs[r].at = "failed"

\* C12 (as claimed): once generating the API key, creating the agent or attaching
\* the prompts has failed, no request to the agent is in flight, no per-prompt
\* result exists, the summary is the zero summary with an error and the step is
\* 'complete'.
C12_SetupFailureAborts ==
    SetupFailed =>
        /\ \A r \in DOMAIN runs :
               /\ runs[r].at \notin {"agent", "judge", "sleep"}
               /\ runs[r].evaluationResults = <<>>
        /\ evaluationResult = FailureSummary
        /\ step = "complete"

\* C20 (as claimed): the values passed to setEvaluationProgress never decrease, lie
\* in 0..100, and the value is 100 once a run has completed with a summary.
C20_ProgressMonotonic ==
    /\ ~progressDropped
    /\ evaluationProgress \in 0..100
    /\ (\E r \in DOMAIN runs : runs[r].at = "done") => evaluationProgress = 100

\* --------------------------------------------------------------------------
\* Properties of addTestPrompts (SpecPrompts)
\* --------------------------------------------------------------------------
\* The question of the k-th item of a non-empty prompts argument
QuestionOf(item) == IF item.t = "string" THEN item.s ELSE item.question

\* C13: addTestPrompts never submits zero prompts: for an absent or empty prompts
\* argument it submits exactly the five default questions, in their order, each
\* without an expected answer; otherwise it submits one prompt per item of the
\* argument, in the argument's order, with the item's question.
C13_NeverZeroPrompts ==
    atpRequest.sent =>
        /\ Len(atpRequest.prompts) >= 1
        /\ (atpPrompts = Null \/ atpPrompts = JArr(<<>>)) =>
               /\ Len(atpRequest.prompts) = 5
               /\ \A k \in 1..Len(atpRequest.prompts) :
                      /\ atpRequest.prompts[k].prompt = defaultPrompts[k]
                      /\ atpRequest.prompts[k].expectedAnswer = Null
        /\ (atpPrompts # Null /\ atpPrompts # JArr(<<>>)) =>
               /\ Len(atpRequest.prompts) = Len(atpPrompts.a)
               /\ \A k \in 1..Len(atpRequest.prompts) :
                      atpRequest.prompts[k].prompt = QuestionOf(atpPrompts.a[k])

C13_Witness ==
    /\ atpPrompts = JArr(<<>>)
    /\ atpRequest.sent
    /\ Len(atpRequest.prompts) = 5
    /\ atpRequest.prompts[5].prompt = Str("Can you explain your main functionality?")

\* --------------------------------------------------------------------------
\* Claims about the connection probe (SpecProbe)
\* --------------------------------------------------------------------------
\* testAgentConnection is the probe in use
VariantProbe == ~UsesConfigProbe(probeConfig)

ProbeReturned == probePc \in {"done", "evaluated"}

\* The probe's k-th request is variant k, and the endpoint answers it with a match
MatchesAt(k) ==
    LET t == ProbeTry(ProbeReact(probeAgent, k, k), EmptyStr)
    IN  ~t.threw /\ t.v.kind = "match"

\* The probe's k-th request fails with connection refused or host not found
FatalAt(k) == 
    LET r == ProbeReact(probeAgent, k, k)
    IN  r.net \in {"ECONNREFUSED", "ENOTFOUND"}

ShapesOf(attempts) == [k \in 1..Len(attempts) |-> attempts[k].shape]

\* C14: testAgentConnection sends the variants in catalogue order, each at most
\* once; when variant k is the first the endpoint answers with a match (and no
\* earlier request was refused or unresolvable), the probe returns success with
\* payloadFormat k and a sample of at most 100 characters, having sent exactly
\* the variants 1..k, in that order.
C14_ProbeStopsAtFirstMatch ==
    VariantProbe =>
      /\ ShapesOf(probeAttempts) = [k \in 1..Len(probeAttempts) |-> k]
      /\ probePc = "probing" =>
           /\ Len(probeAttempts) = probeIndex - 1
           /\ \A k \in 1..Len(probeAttempts) : ~MatchesAt(k)
      /\ \A k \in 1..NumVariants :
           ( /\ ProbeReturned
             /\ MatchesAt(k)
             /\ \A j \in 1..(k - 1) : ~MatchesAt(j) /\ ~FatalAt(j) ) =>
             /\ probeOutcome.success
             /\ probeOutcome.payloadFormat = k
             /\ Chars(probeOutcome.sampleResponse) <= SampleLimit
             /\ Len(probeAttempts) = k
      /\ (ProbeReturned /\ probeOutcome.success) =>
           MatchesAt(probeOutcome.payloadFormat)

\* The third variant won after two that did not, and the sample was cut to 100
\* characters
C14_Witness ==
    /\ VariantProbe
    /\ ProbeReturned
    /\ probeOutcome.success
    /\ probeOutcome.payloadFormat = 3
    /\ ShapesOf(probeAttempts) = <<1, 2, 3>>
    /\ probeAgent.body = JStr(LongText)
    /\ Chars(probeOutcome.sampleResponse) = SampleLimit

\* The class of failure a fatal error code stands for
FatalClass(code) ==
    IF code = "ECONNREFUSED" THEN "CONNECTION_REFUSED" ELSE "CONNECTION_NOT_FOUND"

\* C15: a request of testAgentConnection that fails with ECONNREFUSED or
\* ENOTFOUND is the last one it sends: the probe has returned a failure whose
\* details name that error code and whose message is the one of that class; for
\* an endpoint where nothing listens exactly one request is made.
C15_FatalErrorStopsProbe ==
    VariantProbe =>
      \A k \in 1..Len(probeAttempts) :
        probeAttempts[k].reaction.net \in {"ECONNREFUSED", "ENOTFOUND"} =>
          /\ ProbeReturned
          /\ k = Len(probeAttempts)
          /\ ~probeOutcome.success
          /\ probeOutcome.error = probeAttempts[k].reaction.net
          /\ probeOutcome.message =
               ConnectionUserMessage(FatalClass(probeAttempts[k].reaction.net))
          /\ ( /\ probeAgent.accept = {}
               /\ probeAgent.reject.net \in {"ECONNREFUSED", "ENOTFOUND"} ) => k = 1

\* The endpoint went away at the third request: the probe stopped there
C15_Witness ==
    /\ VariantProbe
    /\ ProbeReturned
    /\ Len(probeAttempts) = 3
    /\ probeAttempts[3].reaction.net = "ECONNREFUSED"
    /\ probeAttempts[2].reaction.net = "ETIMEDOUT"
    /\ probeOutcome.error = "ECONNREFUSED"
    /\ ~probeOutcome.success

\* The endpoint answered: the status is below 400 and the extracted answer is
\* non-empty and different from '{}'
Answered(r) ==
    /\ r.net = "ok"
    /\ r.status < 400
    /\ LET ex == extractResponseText(r.data)
       IN  ~ex.threw /\ JTruthy(ex.v) /\ ex.v # JStr(EmptyObjectText)

\* C16: in testAgentConnection a variant is a match (the probe returns success
\* with that variant's index) if and only if its status is below 400 and the
\* extracted answer is non-empty and different from '{}'; after a variant that
\* is no match and failed with no fatal error, the next variant is tried.
C16_MatchIffAnswered ==
    VariantProbe =>
      \A k \in 1..Len(probeAttempts) :
        LET r == probeAttempts[k].reaction
            matched == /\ ProbeReturned
                       /\ probeOutcome.success
                       /\ probeOutcome.payloadFormat = probeAttempts[k].shape
        IN  /\ matched <=> Answered(r)
            /\ ( /\ ~Answered(r)
                 /\ r.net \notin {"ECONNREFUSED", "ENOTFOUND"}
                 /\ k = Len(probeAttempts) ) =>
                 \/ probePc = "probing" /\ probeIndex = k + 1
                 \/ k = NumVariants /\ ~probeOutcome.success

TimedOut(r) == r.net \in {"ETIMEDOUT", "ECONNABORTED"}

NotCompatibleMessage ==
    Str("Could not establish a valid connection. The endpoint might not be compatible.")

\* C17: a failed probe reports the class of its failure: when every request it
\* sent timed out, the outcome is the timeout diagnosis; when a request was
\* refused or its host not found, the outcome is that diagnosis; when all
\* variants were answered without a match, the outcome is "no compatible
\* format" after 13 variants, each sent once.
C17_FailureClassReported ==
    (ProbeReturned /\ ~probeOutcome.success) =>
      /\ ( /\ Len(probeAttempts) >= 1
           /\ \A k \in 1..Len(probeAttempts) : TimedOut(probeAttempts[k].reaction) ) =>
           probeOutcome.message = ConnectionUserMessage("CONNECTION_TIMEOUT")
      /\ \A k \in 1..Len(probeAttempts) :
           probeAttempts[k].reaction.net \in {"ECONNREFUSED", "ENOTFOUND"} =>
             probeOutcome.message =
               ConnectionUserMessage(FatalClass(probeAttempts[k].reaction.net))
      /\ ( /\ VariantProbe
           /\ \A k \in 1..Len(probeAttempts) : probeAttempts[k].reaction.net = "ok" ) =>
           /\ probeOutcome.message = NotCompatibleMessage
           /\ probeOutcome.triedFormats = NumVariants
           /\ ShapesOf(probeAttempts) = [k \in 1..NumVariants |-> k]

\* C18: after testAgentConnection succeeded with variant k, the agent call of
\* the evaluation sends exactly one request, of variant k's shape.
C18_WinningVariantRemembered ==
    ( /\ probePc = "evaluated"
      /\ VariantProbe
      /\ probeOutcome.success ) =>
      evalCall.shapes = <<probeOutcome.payloadFormat>>

\* A CustomEndpointConfig is present: one of its fields is set
ConfigPresent(config) ==
    \/ config.headers
    \/ Truthy(config.bodyTemplate)
    \/ Truthy(config.method)
    \/ Truthy(config.responseField)

\* C19: when a custom configuration is present, the probe and the agent call
\* of the evaluation each send exactly one request, the one built from the
\* configuration, and no payload variant.
C19_CustomConfigSkipsNegotiation ==
    ConfigPresent(probeConfig) =>
      /\ ProbeReturned =>
           ShapesOf(probeAttempts) = <<CustomRequestShape(probeConfig)>>
      /\ probePc = "evaluated" =>
           evalCall.shapes = <<CustomRequestShape(evalConfig(probeConfig))>>

\* --------------------------------------------------------------------------
\* Claims about the backend clients (SpecKey)
\* --------------------------------------------------------------------------
\* The key the backend issued last before the k-th request (0: none yet)
KeyBefore(k) ==
    Cardinality({ j \in 1..(k - 1) : keyRequests[j].call = "generateApiKey" })

\* C21: the first backend request of a run obtains the API key, and every
\* later backend request carries the key issued last in its x-api-key
\* header, also after setBackendUrl.
C21_EveryCallCarriesKey ==
    /\ keyRequests # <<>> => keyRequests[1].call = "generateApiKey"
    /\ \A k \in 2..Len(keyRequests) :
         keyRequests[k].call # "generateApiKey" =>
           /\ keyRequests[k].key # 0
           /\ keyRequests[k].key = KeyBefore(k)

\* --------------------------------------------------------------------------
\* Claims about the exit of the process (SpecExit)
\* --------------------------------------------------------------------------
\* C22: in non-interactive mode, a process that has exited after the run ended
\* in 'complete' exited with a non-zero status if the summary of the run has an
\* error, and with status zero if it has none, whatever the number of failed
\* prompts.
C22_ExitStatusReflectsSetupFailure ==
    ( /\ exitApp.nonInteractive
      /\ exitCode # NotExited
      /\ exitApp.step = "complete" ) =>
      (exitCode = 0 <=> ~Truthy(exitApp.evaluationResult.error))

\* --------------------------------------------------------------------------
\* Claims about the pure functions (SpecFunctions)
\* --------------------------------------------------------------------------
NormalizeCalled == fnCall.fn = "normalizeEndpoint" /\ Len(fnReturns) >= 1

\* C23: normalizeEndpoint applied to its own result returns that result.
C23_NormalizeIdempotent ==
    (fnCall.fn = "normalizeEndpoint" /\ Len(fnReturns) = 2) =>
      fnReturns[2] = fnReturns[1]

\* An address without a scheme was prefixed, and normalizing the result again
\* left it as it was
C23_Witness ==
    /\ fnCall.fn = "normalizeEndpoint"
    /\ fnCall.endpoint = " localhost:8000/chat "
    /\ Len(fnReturns) = 2
    /\ fnReturns[1] = "http://localhost:8000/chat"
    /\ fnReturns[2] = "http://localhost:8000/chat"

Letters ==
    { "a", "b", "c", "d", "e", "f", "g", "h", "i", "j", "k", "l", "m",
      "n", "o", "p", "q", "r", "s", "t", "u", "v", "w", "x", "y", "z",
      "A", "B", "C", "D", "E", "F", "G", "H", "I", "J", "K", "L", "M",
      "N", "O", "P", "Q", "R", "S", "T", "U", "V", "W", "X", "Y", "Z" }

\* The address has the form '<scheme>://...'
CarriesScheme(s) ==
    \E k \in 2..(Len(s) - 2) :
      /\ SubSeq(s, k, k + 2) = "://"
      /\ \A j \in 1..(k - 1) : Char(s, j) \in Letters

\* C24: normalizeEndpoint returns an address that carries a scheme as it is.
C24_SchemeLeftUnchanged ==
    (NormalizeCalled /\ CarriesScheme(fnCall.endpoint)) =>
      fnReturns[1] = fnCall.endpoint

\* The position of the first character of s that is in `stops` (Len(s) + 1: none)
FirstOf(s, stops) ==
    IF \E k \in 1..Len(s) : Char(s, k) \in stops
    THEN CHOOSE k \in 1..Len(s) :
           /\ Char(s, k) \in stops
           /\ \A j \in 1..(k - 1) : Char(s, j) \notin stops
    ELSE Len(s) + 1

\* host[:port] of an address without a scheme: the text before its path
Authority(s) == SubSeq(s, 1, FirstOf(s, {"/"}) - 1)

HostOf(s) == SubSeq(s, 1, FirstOf(s, {"/", ":"}) - 1)

\* The address names a port: its authority ends in ':' and digits
ExplicitPort(s) ==
    LET a == Authority(s)
        c == FirstOf(a, {":"})
    IN  c < Len(a) /\ DigitRun(a, c + 1) = Len(a) + 1

\* The host of the address is four numbers separated by dots
DottedIPv4(s) ==
    LET h == HostOf(s)
        last == NumberDot(h, NumberDot(h, NumberDot(h, 1)))
    IN  last > 0 /\ last <= Len(h) /\ DigitRun(h, last) = Len(h) + 1

\* C25: an address without a scheme gets 'http://' when it names a port,
\* contains 'localhost' or is a dotted IPv4 address, and 'https://' otherwise.
C25_PrefixRule ==
    LET address == Trim(fnCall.endpoint)
    IN  (NormalizeCalled /\ ~CarriesScheme(address)) =>
          fnReturns[1] =
            (IF \/ ExplicitPort(address)
                \/ IncludesText(address, "localhost")
                \/ DottedIPv4(address)
             THEN "http://" ELSE "https://") \o address

\* C26: generatePayloadVariants(q) returns 13 bodies, in this order: the chat
\* messages body, {message}, {inputs}, the body with message, query, question
\* and prompt, then {query}, {question}, {prompt}, {input}, {text},
\* {user_message}, {data}, {content}, and the bare string q; a second call with
\* the same q returns the same sequence.
C26_VariantCatalogue ==
    fnCall.fn = "generatePayloadVariants" =>
      LET q == JStr(fnCall.question)
          catalogue ==
            << JObj(<< <<"messages", JArr(<< JObj(<< <<"role", JStr(<<"user">>)>>,
                                                     <<"content", q>> >>) >>)>> >>),
               JObj(<< <<"message", q>> >>),
               JObj(<< <<"inputs", q>> >>),
               JObj(<< <<"message", q>>, <<"query", q>>, <<"question", q>>, <<"prompt", q>> >>),
               JObj(<< <<"query", q>> >>),
               JObj(<< <<"question", q>> >>),
               JObj(<< <<"prompt", q>> >>),
               JObj(<< <<"input", q>> >>),
               JObj(<< <<"text", q>> >>),
               JObj(<< <<"user_message", q>> >>),
               JObj(<< <<"data", q>> >>),
               JObj(<< <<"content", q>> >>),
               q >>
      IN  \A k \in 1..Len(fnReturns) :
            /\ Len(fnReturns[k]) = NumVariants
            /\ fnReturns[k] = catalogue

\* Two calls were made with the same question and returned 13 bodies each
C26_Witness ==
    /\ fnCall.fn = "generatePayloadVariants"
    /\ fnCall.question = Str("What is the refund policy?")
    /\ Len(fnReturns) = 2
    /\ Len(fnReturns[1]) = 13
    /\ fnReturns[2][13] = JStr(Str("What is the refund policy?"))

\* C27: extractResponseText never throws and returns a string for every decoded
\* response body (string, object of any shape, array, number, boolean, null).
C27_ExtractAlwaysReturnsString ==
    (fnCall.fn = "extractResponseText" /\ fnReturns # <<>>) =>
      /\ ~fnReturns[1].threw
      /\ fnReturns[1].v.t = "string"

\* v[n - 1] of an array value, absent (Null) otherwise
Elem(v, n) == IF v.t = "array" /\ n >= 1 /\ n <= Len(v.a) THEN v.a[n] ELSE Null

\* The number of elements of an array value, 0 otherwise
Count(v) == IF v.t = "array" THEN Len(v.a) ELSE 0

\* The sole value of a body that has exactly one key (an array of one element
\* has the one key 0), absent otherwise
SoleValue(data) ==
    IF data.t = "object" /\ Len(data.o) = 1 THEN data.o[1][2]
    ELSE Elem(data, IF Count(data) = 1 THEN 1 ELSE 0)

\* The strategies in the order of the claim; each yields a value or nothing
ByPriority(data) ==
    LET named == { n \in 1..Len(responseFields) :
                     /\ Get(data, responseFields[n]).t = "string"
                     /\ Get(data, responseFields[n]).s # EmptyStr }
        choice == Elem(Get(data, "choices"), 1)
        messages == Get(data, "messages")
        candidates ==
            << Get(Get(choice, "message"), "content"),
               Get(choice, "text"),
               Get(Elem(messages, Count(messages)), "content"),
               SoleValue(data) >>
        usable == { n \in 1..Len(candidates) :
                      IF n = 4 THEN candidates[n].t = "string"
                      ELSE JTruthy(candidates[n]) }
    IN  IF data.t = "string" THEN data
        ELSE IF named # {} THEN Get(data, responseFields[SetMin(named)])
        ELSE IF usable # {} THEN candidates[SetMin(usable)]
        ELSE JStr(Stringify(data))

\* C28: extractResponseText applies its strategies in a fixed order: a string
\* body verbatim; else the first listed field holding a non-empty string; else
\* choices[0].message.content, choices[0].text, the content of the last element
\* of messages, the sole value of a single-key body when it is a string, and
\* last the JSON text of the whole body.
C28_PriorityOrder ==
    (fnCall.fn = "extractResponseText" /\ fnReturns # <<>>) =>
      fnReturns[1] = Ret(ByPriority(fnCall.data))

\* The order is kept on every body for which the extractor returns at all
C28_OrderWhenReturned ==
    (fnCall.fn = "extractResponseText" /\ fnReturns # <<>> /\ ~fnReturns[1].threw) =>
      fnReturns[1] = Ret(ByPriority(fnCall.data))

\* The segment names a member of the value: an index within an array, or a key
\* of an object
SegmentExists(current, part) ==
    IF IsNumeric(part) THEN ParseInt(part) < Count(current) ELSE HasKey(current, part)

RECURSIVE EverySegmentExists(_, _, _)
EverySegmentExists(current, parts, n) ==
    \/ n > Len(parts)
    \/ /\ SegmentExists(current, parts[n])
       /\ EverySegmentExists(Member(current, parts[n]), parts, n + 1)

RECURSIVE Reached(_, _, _)
\* The value at the end of a path whose segments all exist
Reached(current, parts, n) ==
    IF n > Len(parts) THEN current ELSE Reached(Member(current, parts[n]), parts, n + 1)

CustomFieldCalled == fnCall.fn = "extractCustomResponseField" /\ fnReturns # <<>>

\* C29: extractCustomResponseField returns the value at the end of the path when
\* every segment exists (a string as it is, any other value as its JSON text);
\* when a segment is missing it returns what extractResponseText returns for the
\* whole body, and does not throw.
C29_PathOrFallback ==
    CustomFieldCalled =>
      LET parts == SplitPath(fnCall.fieldPath)
          value == Reached(fnCall.data, parts, 1)
      IN  IF EverySegmentExists(fnCall.data, parts, 1)
          THEN fnReturns[1] = Ret(IF value.t = "string" THEN value
                                  ELSE JStr(Stringify(value)))
          ELSE /\ ~fnReturns[1].threw
               /\ fnReturns[1] = extractResponseText(fnCall.data)

\* The same, for the bodies on which extractResponseText returns and the paths
\* that do not end at a null
C29_WhenExtractorReturns ==
    (/\ CustomFieldCalled
     /\ ~extractResponseText(fnCall.data).threw
     /\ (\/ Walk(fnCall.data, SplitPath(fnCall.fieldPath), 1).t # "null"
         \/ ~EverySegmentExists(fnCall.data, SplitPath(fnCall.fieldPath), 1)))
    => C29_PathOrFallback

RECURSIVE EveryPlaceholderReplaced(_, _, _)
\* The template from position k with every occurrence of a placeholder, read
\* from left to right, replaced by the question itself
EveryPlaceholderReplaced(template, k, question) ==
    IF k > Len(template) THEN ""
    ELSE IF StartsAt(template, k, "[eval-question]")
         THEN question \o EveryPlaceholderReplaced(template, k + 15, question)
    ELSE IF StartsAt(template, k, "{{question}}")
         THEN question \o EveryPlaceholderReplaced(template, k + 12, question)
    ELSE IF StartsAt(template, k, "{question}")
         THEN question \o EveryPlaceholderReplaced(template, k + 10, question)
    ELSE Char(template, k) \o EveryPlaceholderReplaced(template, k + 1, question)

BuildCalled == fnCall.fn = "buildCustomPayload" /\ fnReturns # <<>>

\* C30: buildCustomPayload never raises; it replaces every occurrence of
\* [eval-question], {{question}} and {question} in the template by the question
\* and returns the parsed JSON value when the substituted text is valid JSON,
\* the substituted text as a raw string otherwise.
C30_SubstituteThenParse ==
    BuildCalled =>
      LET text == EveryPlaceholderReplaced(fnCall.template, 1, fnCall.question)
      IN  /\ ~fnReturns[1].threw
          /\ fnReturns[1].v = IF JsonParse(text).ok THEN JsonParse(text).v ELSE JStr(text)

\* The same, for the questions without a dollar sign and without a placeholder
C30_PlainQuestions ==
    (/\ BuildCalled
     /\ ~IncludesText(fnCall.question, "$")
     /\ ~IncludesText(fnCall.question, "{question}"))
    => C30_SubstituteThenParse

CustomRequestSent ==
    fnCall.fn \in {"callLLMEndpoint", "testAgentConnectionWithConfig"} /\ fnReturns # <<>>

\* C31: with a custom configuration the single request is sent with the
\* configured HTTP method (compared without regard to case), and with POST when
\* no method is configured, in callLLMEndpoint and testAgentConnectionWithConfig.
C31_ConfiguredMethodUsed ==
    CustomRequestSent =>
      fnReturns[1] = IF fnCall.method = "" THEN "post" ELSE toLowerCase(fnCall.method)

\* The same, for the methods GET and POST and for no method
C31_GetAndPost ==
    (CustomRequestSent /\ toLowerCase(fnCall.method) \in {"", "get", "post"})
    => C31_ConfiguredMethodUsed

TransformCalled == fnCall.fn = "transformNetworkError" /\ fnReturns # <<>>

\* The class, code and isRetryable flag the stated precedence gives
ByPrecedence(error) ==
    IF error.code = "ECONNREFUSED" THEN <<"ConnectionError", "CONNECTION_REFUSED", TRUE>>
    ELSE IF error.code = "ETIMEDOUT"
            \/ (error.messageType = "string" /\ Includes(error.message, "timeout"))
    THEN <<"ConnectionError", "CONNECTION_TIMEOUT", TRUE>>
    ELSE IF error.code \in {"ENOTFOUND", "ENOENT"}
    THEN <<"ConnectionError", "CONNECTION_NOT_FOUND", FALSE>>
    ELSE IF error.respStatus # 0
    THEN <<"ApiError", "API_ERROR", error.respStatus \in {502, 503}>>
    ELSE <<"ConnectionError", "NETWORK_ERROR", TRUE>>

\* C32: transformNetworkError returns, for every input and without throwing, an
\* error with a technical message, a userMessage and an isRetryable flag, classed
\* by the precedence ECONNREFUSED; ETIMEDOUT or a 'timeout' message; ENOTFOUND or
\* ENOENT; an HTTP response status (ApiError, retryable only for 502 and 503);
\* NETWORK_ERROR.
C32_ClassificationPrecedence ==
    TransformCalled =>
      /\ ~fnReturns[1].threw
      /\ Truthy(fnReturns[1].v.message)
      /\ Truthy(fnReturns[1].v.userMessage)
      /\ fnReturns[1].v.isRetryable \in BOOLEAN
      /\ <<fnReturns[1].v.name, fnReturns[1].v.code, fnReturns[1].v.isRetryable>>
           = ByPrecedence(fnCall.error)

\* The same, for thrown values whose message is a string or absent and whose
\* response status, if any, is 400 or more
C32_ErrorStatuses ==
    (/\ TransformCalled
     /\ fnCall.error.messageType # "number"
     /\ fnCall.error.respStatus \notin 1..399)
    => C32_ClassificationPrecedence

\* A response with a status below 400
Answering(r) == r.net = "ok" /\ r.status < 400

\* C33: without custom configuration callLLMEndpoint sends the variants in
\* catalogue order, at most 13 of them, and stops at the first response with a
\* status below 400, which it uses whatever its content; a network error on a
\* variant does not stop the search; when no variant gets a status below 400
\* the call throws the error of the last variant attempted.
C33_VariantSearch ==
    /\ searchSent = [k \in 1..Len(searchSent) |-> k]
    /\ Len(searchSent) <= NumVariants
    /\ (searchPc = "loop" /\ searchSent # <<>>) => ~Answering(searchLast)
    /\ searchPc \in {"after", "done"} =>
         \/ Answering(searchLast) /\ searchResponse = searchLast
         \/ Len(searchSent) = NumVariants
    /\ (searchPc = "done" /\ ~Answering(searchLast)) =>
         /\ searchOut.threw
         /\ searchOut.e = Rethrown(IF searchLast.net # "ok" THEN AxiosError(searchLast.net)
                                   ELSE Error("none", <<"HTTP ", ToString(searchLast.status)>>))

\* A call in which variants were refused at the connection, one got an HTTP
\* error, and the last one was not found: the call has thrown that last error
C33_Witness ==
    /\ searchPc = "done"
    /\ Len(searchSent) = NumVariants
    /\ searchLast.net = "ENOTFOUND"
    /\ searchResponse.net = "ok"
    /\ searchOut.threw
    /\ searchOut.e.code = "CONNECTION_NOT_FOUND"

\* --------------------------------------------------------------------------
\* Properties of the result writes of runPromptEvaluation (SpecEval)
\* --------------------------------------------------------------------------
\* The k-th write of the last prompt is its last successful write
LastStored(k) ==
    /\ lastCalls.writes[k].ok
    /\ \A j \in (k + 1)..Len(lastCalls.writes) : ~lastCalls.writes[j].ok

\* C34: whenever a result write of a prompt succeeds, the status of the last
\* successful write is 'passed' exactly when runPromptEvaluation returns a result
\* with success = true, on the judged path, the leniency path and the
\* agent-failure path alike.
C34_StoredStatusAgrees ==
    lastCalls.prompt # 0 =>
        \A k \in 1..Len(lastCalls.writes) :
            LastStored(k) =>
                (lastCalls.writes[k].status = "passed"
                    <=> (LastReturned /\ LastResult.success))

\* The judge said 'failed', the full write and the minimal retry failed, and the
\* leniency write stored 'passed' for a result with success = true
C34_Witness ==
    /\ LastReturned
    /\ lastCalls.judged.called
    /\ lastCalls.judged.v.status = Str("failed")
    /\ BothWritesFailed
    /\ Len(lastCalls.writes) = 3
    /\ LastStored(3)
    /\ lastCalls.writes[3].status = "passed"
    /\ LastResult.success

\* C35 (as claimed): runPromptEvaluation always ends with a result, after at most
\* one agent call sequence, at most one judge request, and at most three result
\* writes when the agent responded (full, minimal, leniency) or at most two when
\* the agent call failed (full failed record, status-only record); stated for
\* runs in which no progress callback throws.
C35_BoundedWorkPerPrompt ==
    (lastCalls.prompt # 0 /\ ~cbThrew) =>
        /\ LastReturned
        /\ lastCalls.agentRequests <= NumVariants
        /\ lastCalls.judgeRequests <= 1
        /\ Len(lastCalls.writes) <= (IF lastCalls.llm.threw THEN 2 ELSE 3)

\* --------------------------------------------------------------------------
\* The judge requests of checkHallucination (SpecJudge)
\* --------------------------------------------------------------------------
\* The response is one the judge is not asked about
AgentGaveNoAnswer == hcResponse = EmptyStr \/ StartsWith(hcResponse, ErrorPrefix)

\* C36: checkHallucination returns a 'failed' verdict without a judge request
\* when the agent response is empty or starts with 'Error calling LLM endpoint:';
\* for every other response exactly one judge request is made.
C36_JudgeAskedOncePerAnswer ==
    hcCalls > 0 =>
        IF AgentGaveNoAnswer
        THEN /\ hcOutcome.requests = 0
             /\ hcJudge = NoResponse
             /\ ~hcOutcome.threw
             /\ hcOutcome.v.status = Str("failed")
        ELSE /\ hcOutcome.requests = 1
             /\ hcJudge # NoResponse

\* A synthesized error text was judged 'failed' without a request, after an
\* answer for which the judge was asked
C36_Witness ==
    /\ hcCalls = 2
    /\ hcResponse = ErrorPrefix \o Str("connect ECONNREFUSED")
    /\ hcOutcome.requests = 0
    /\ hcOutcome.v.status = Str("failed")

\* --------------------------------------------------------------------------
\* The connection test as a gate of the evaluation (SpecFlow)
\* --------------------------------------------------------------------------
\* The steps that follow the connection test and its menus
StepsPastTheTest ==
    {"checking-knowledge", "select-source", "pinecone-url", "pinecone-api-key",
     "fetching-pinecone", "postgresql-config", "fetching-postgresql",
     "pdf-path-input", "uploading-pdf", "running-evaluation", "complete"}

\* The App has just left the given step
JustLeft(s) == flowPrev = s /\ flowApp.step # s

\* C37: in interactive mode the steps past the connection test, and
\* 'running-evaluation' among them, are reached after a failed test only through
\* 'Continue anyway' (the last test is the failed one until a later test
\* succeeds); in non-interactive mode a failed test is followed by
\* 'checking-knowledge', never by the connection-failed menu, and the knowledge
\* check leads on to the evaluation (for a fetched source: to its fetch, or to
\* the exit for missing settings, as after a successful test); in neither mode
\* does a successful test lead to 'connection-failed'.
C37_ConnectionGate ==
    /\ (~flowApp.nonInteractive /\ flowTest = "failed"
          /\ flowApp.step \in StepsPastTheTest) => flowContinued
    /\ (flowApp.nonInteractive /\ flowTest = "failed"
          /\ JustLeft("testing-connection")) =>
           /\ flowApp.step = "checking-knowledge"
           /\ ~flowContinued
    /\ (flowApp.nonInteractive /\ JustLeft("checking-knowledge")) =>
           flowApp.step = IF flowApp.knowledgeSource \in FetchedSources
                          THEN FetchStep(flowApp.knowledgeSource)
                          ELSE "running-evaluation"
    /\ (flowApp.nonInteractive /\ flowApp.exited) =>
           /\ flowApp.knowledgeSource \in FetchedSources
           /\ ~flowApp.settings
    /\ flowApp.step = "connection-failed" =>
           /\ flowTest = "failed"
           /\ ~flowApp.nonInteractive
    /\ (flowTest = "success" /\ JustLeft("testing-connection")) =>
           flowApp.step = "checking-knowledge"

\* A non-interactive run whose connection test failed has reached
\* 'running-evaluation' on its own
C37_Witness ==
    /\ flowApp.nonInteractive
    /\ flowTest = "failed"
    /\ ~flowContinued
    /\ flowApp.step = "running-evaluation"
    /\ flowApp.knowledgeSource = "files"

\* --------------------------------------------------------------------------
\* The end of the evaluation in the App (SpecAppFair)
\* --------------------------------------------------------------------------
\* Every run that enters 'running-evaluation' reaches step 'complete' with an
\* evaluation result set, every pending call ending
EvaluationCompletes ==
    (step = "running-evaluation") ~> (step = "complete" /\ evaluationResult # Null)

\* C38 (as claimed): every run that enters 'running-evaluation' eventually
\* reaches step 'complete' with an evaluation result set, and 'complete' is
\* terminal: no transition leaves it, and the result shown is not replaced
\* afterwards.
C38_CompleteIsTerminal ==
    /\ EvaluationCompletes
    /\ [][step = "complete" =>
            /\ step' = "complete"
            /\ evaluationResult' = evaluationResult]_vars

=============================================================================
